---- MODULE Spec2Model ----
(***************************************************************************)
(* num-bigint: the digit-vector core (biguint/addition.rs,                 *)
(* biguint/subtraction.rs), the unsigned magnitude BigUint and the signed  *)
(* wrapper BigInt (bigint/addition.rs, bigint/multiplication.rs,           *)
(* bigint/division.rs).                                                    *)
(*                                                                         *)
(* Widths are scaled: u32 has ScalarBits bits, u64 twice and u128 four     *)
(* times as many.  A BigDigit is a u32 in the 32-bit digit build and a u64 *)
(* in the 64-bit digit build (digit64); cfg_digit!(item32 item64) selects  *)
(* the first item in the former and the second in the latter.              *)
(***************************************************************************)
EXTENDS Integers, Sequences, FiniteSets, TLC

VARIABLES
    digit64,  \* build configuration: TRUE when BigDigit is u64
    pc,       \* the caller's position: "idle", "returned" or "aborted"
    u,        \* the BigUint the caller holds (its digit vector, little-endian)
    ulast,    \* the last BigUint call: operation, operands, outcome
    n,        \* the BigInt the caller holds
    last,     \* the last BigInt call: operation, operands, outcome
    arg       \* the bytes, text and radix the caller holds for a conversion

vars == <<digit64, pc, u, ulast, n, last, arg>>

(***************************************************************************)
(* Bounds of the model.                                                    *)
(***************************************************************************)
\* bits of the scaled u32
ScalarBits == 2
\* longest input magnitude, in u32 words, drawn over the boundary digits
MaxLen == 2
\* longest input magnitude, in u32 words, drawn from the long carry patterns
MaxLongLen == 5
\* largest value exported in every radix
MaxValue == 300
\* longest byte buffer imported
MaxBuf == 3
\* longest text parsed
MaxText == 3
\* the largest binary exponent of an f64 input
MaxExp == 3
\* bits of the digits the radix base tables are computed for, in the 32-bit
\* and in the 64-bit digit build
TableBits32 == 16
TableBits64 == 22

(***************************************************************************)
(* Primitive types.                                                        *)
(***************************************************************************)
UnsignedTypes == {"u32", "u64", "u128"}
SignedTypes == {"i32", "i64", "i128"}

Bits(ty) ==
    CASE ty \in {"u32", "i32"} -> ScalarBits
      [] ty \in {"u64", "i64"} -> 2 * ScalarBits
      [] ty \in {"u128", "i128"} -> 4 * ScalarBits

UnsignedOf(ty) ==
    CASE ty = "i32" -> "u32"
      [] ty = "i64" -> "u64"
      [] ty = "i128" -> "u128"
      [] OTHER -> ty

MaxOf(ty) == IF ty \in UnsignedTypes THEN 2 ^ Bits(ty) - 1 ELSE 2 ^ (Bits(ty) - 1) - 1
MinOf(ty) == IF ty \in UnsignedTypes THEN 0 ELSE 0 - 2 ^ (Bits(ty) - 1)

\* big_digit::BITS and the digit base 2^BITS
DigitBits == IF digit64 THEN 2 * ScalarBits ELSE ScalarBits
Base == 2 ^ DigitBits
DigitMax == Base - 1

(***************************************************************************)
(* Digit Vector Core: addition (biguint/addition.rs).                      *)
(***************************************************************************)
\* lhs.overflowing_add(rhs): the wrapped sum and whether it wrapped
overflowing_add(lhs, rhs) ==
    [v |-> (lhs + rhs) % Base, o |-> lhs + rhs >= Base]

\* a plausible slip: the carry of the second addition is dropped
adc_DropSecondCarry(carry, lhs, rhs) ==
    LET second(ab) == [out |-> overflowing_add(ab.v, carry).v,
                       carry |-> IF ab.o THEN 1 ELSE 0]
    IN  second(overflowing_add(lhs, rhs))

\* a plausible slip: a carry is reported only when both additions wrap
adc_CarryWhenBothWrap(carry, lhs, rhs) ==
    LET result(ab, cd) == [out |-> cd.v, carry |-> IF ab.o /\ cd.o THEN 1 ELSE 0]
        second(ab) == result(ab, overflowing_add(ab.v, carry))
    IN  second(overflowing_add(lhs, rhs))

\* adc: two chained overflowing additions; (out, carry-out)
adc(carry, lhs, rhs) ==
    LET result(ab, cd) == [out |-> cd.v, carry |-> IF ab.o \/ cd.o THEN 1 ELSE 0]
        second(ab) == result(ab, overflowing_add(ab.v, carry))
    IN  second(overflowing_add(lhs, rhs))

\* adc on x86 / x86_64: arch::_addcarry_u32 / _addcarry_u64, the add-with-carry
\* instruction (any nonzero carry-in counts as one)
adc_x86(carry, a, b) ==
    LET sum == a + b + (IF carry # 0 THEN 1 ELSE 0)
    IN  [out |-> sum % Base, carry |-> sum \div Base]

\* __add2's first loop: a_lo.iter_mut().zip(b), from position i on
RECURSIVE add2_lo(_, _, _, _)
add2_lo(a, b, i, carry) ==
    IF i > Len(b) THEN [a |-> a, carry |-> carry]
    ELSE LET next(r) == add2_lo([a EXCEPT ![i] = r.out], b, i + 1, r.carry)
         IN  next(adc(carry, a[i], b[i]))

\* a plausible slip: the carry is added to one higher digit only
add2_hi_StopsAfterOne(a, i, carry) ==
    IF carry = 0 \/ i > Len(a) THEN [a |-> a, carry |-> carry]
    ELSE LET next(r) == [a |-> [a EXCEPT ![i] = r.out], carry |-> r.carry]
         IN  next(adc(carry, a[i], 0))

\* __add2's second loop: the carry runs through a_hi until it dies
RECURSIVE add2_hi(_, _, _)
add2_hi(a, i, carry) ==
    IF carry = 0 \/ i > Len(a) THEN [a |-> a, carry |-> carry]
    ELSE LET next(r) == add2_hi([a EXCEPT ![i] = r.out], i + 1, r.carry)
         IN  next(adc(carry, a[i], 0))

\* __add2(a, b), len(a) >= len(b): (a after a += b, returned carry)
__add2(a, b) ==
    LET rest(lo) == add2_hi(lo.a, Len(b) + 1, lo.carry)
    IN  rest(add2_lo(a, b, 1, 0))

\* add2(a, b) in a build with or without debug assertions: __add2, then
\* debug_assert!(carry == 0)
add2_asserting(a, b, debug_assertions) ==
    LET check(r) == [a |-> r.a, ok |-> ~debug_assertions \/ r.carry = 0]
    IN  check(__add2(a, b))

\* self.data.push(carry) when the carry is not zero
PushCarry(r) == IF r.carry # 0 THEN Append(r.a, r.carry) ELSE r.a

\* while self.data.len() < k { self.data.push(0) }
RECURSIVE PadTo(_, _)
PadTo(a, k) == IF Len(a) < k THEN PadTo(Append(a, 0), k) ELSE a

Tail_from(s, i) == SubSeq(s, i, Len(s))

\* AddAssign<&Self> for BigUint
BigUint_add_assign(self, other) ==
    LET self_len == Len(self)
        \* the carry out of the low part runs through other's high digits
        high(lo) == __add2(Tail_from(other, self_len + 1), <<lo.carry>>)
        join(lo, hi) == PushCarry([a |-> lo.a \o hi.a, carry |-> hi.carry])
        short(lo) == join(lo, high(lo))
    IN  IF self_len < Len(other)
        THEN short(__add2(self, SubSeq(other, 1, self_len)))
        ELSE PushCarry(__add2(self, other))

\* big_digit::from_doublebigdigit: (hi, lo) halves of a double digit
from_doublebigdigit(x) == [hi |-> x \div Base, lo |-> x % Base]

\* u32_from_u128: the four u32 quarters (a, b, c, d), a the most significant
u32_from_u128(x) ==
    LET w == 2 ^ ScalarBits
    IN  [a |-> x \div (w * w * w), b |-> (x \div (w * w)) % w,
         c |-> (x \div w) % w, d |-> x % w]

\* AddAssign<u32> for BigUint (also the 64-bit digit AddAssign<u64>)
add_assign_digit(self, other) ==
    IF other # 0
    THEN PushCarry(__add2(IF self = <<>> THEN <<0>> ELSE self, <<other>>))
    ELSE self

\* the two-digit path shared by AddAssign<u64> (32-bit digits) and
\* AddAssign<u128> (64-bit digits)
add_assign_double(self, other) ==
    LET split(hl) ==
            IF hl.hi = 0 THEN add_assign_digit(self, hl.lo)
            ELSE PushCarry(__add2(PadTo(self, 2), <<hl.lo, hl.hi>>))
    IN  split(from_doublebigdigit(other))

\* AddAssign<u64> for BigUint: cfg_digit!(32-bit item, 64-bit item)
add_assign_u64(self, other) ==
    IF digit64 THEN add_assign_digit(self, other)
    ELSE add_assign_double(self, other)

\* AddAssign<u128> for BigUint: cfg_digit!(32-bit item, 64-bit item)
add_assign_u128(self, other) ==
    IF digit64 THEN add_assign_double(self, other)
    ELSE IF other <= MaxOf("u64") THEN add_assign_u64(self, other)
    ELSE LET quarters(q) ==
                 IF q.a > 0
                 THEN PushCarry(__add2(PadTo(self, 4), <<q.d, q.c, q.b, q.a>>))
                 ELSE PushCarry(__add2(PadTo(self, 3), <<q.d, q.c, q.b>>))
         IN  quarters(u32_from_u128(other))

\* AddAssign<u32 | u64 | u128> for BigUint, by the scalar's type
add_assign_scalar(self, ty, other) ==
    CASE ty = "u32" -> add_assign_digit(self, other)
      [] ty = "u64" -> add_assign_u64(self, other)
      [] ty = "u128" -> add_assign_u128(self, other)

(***************************************************************************)
(* Digit Vector Core: subtraction (biguint/subtraction.rs).                *)
(***************************************************************************)
\* lhs.overflowing_sub(rhs): the wrapped difference and whether it wrapped
overflowing_sub(lhs, rhs) ==
    [v |-> (lhs - rhs + Base) % Base, o |-> lhs < rhs]

\* a plausible slip: the borrow of the second subtraction is dropped
sbb_DropSecondBorrow(borrow, lhs, rhs) ==
    LET result(ab, cd) == [out |-> cd.v, borrow |-> IF ab.o THEN 1 ELSE 0]
        second(ab) == result(ab, overflowing_sub(ab.v, borrow))
    IN  second(overflowing_sub(lhs, rhs))

\* sbb: two chained overflowing subtractions; (out, borrow-out)
sbb(borrow, lhs, rhs) ==
    LET result(ab, cd) == [out |-> cd.v, borrow |-> IF ab.o \/ cd.o THEN 1 ELSE 0]
        second(ab) == result(ab, overflowing_sub(ab.v, borrow))
    IN  second(overflowing_sub(lhs, rhs))

\* sbb on x86 / x86_64: arch::_subborrow_u32 / _subborrow_u64, the
\* subtract-with-borrow instruction
sbb_x86(borrow, a, b) ==
    LET diff == a - b - (IF borrow # 0 THEN 1 ELSE 0)
    IN  [out |-> (diff + 2 * Base) % Base, borrow |-> IF diff < 0 THEN 1 ELSE 0]

\* all(|x| *x == 0) over a slice
AllZero(s) == \A i \in 1..Len(s) : s[i] = 0

\* sub2's first loop: a_lo.iter_mut().zip(b_lo), from position i to len
RECURSIVE sub2_lo(_, _, _, _, _)
sub2_lo(a, b, i, len, borrow) ==
    IF i > len THEN [a |-> a, borrow |-> borrow]
    ELSE LET next(r) == sub2_lo([a EXCEPT ![i] = r.out], b, i + 1, len, r.borrow)
         IN  next(sbb(borrow, a[i], b[i]))

\* sub2's second loop: the borrow runs through a_hi until it dies
RECURSIVE sub2_hi(_, _, _)
sub2_hi(a, i, borrow) ==
    IF borrow = 0 \/ i > Len(a) THEN [a |-> a, borrow |-> borrow]
    ELSE LET next(r) == sub2_hi([a EXCEPT ![i] = r.out], i + 1, r.borrow)
         IN  next(sbb(borrow, a[i], 0))

Min(x, y) == IF x <= y THEN x ELSE y

\* a plausible slip: the digits of b beyond a's length are not looked at
sub2_NoHighCheck(a, b) ==
    LET len == Min(Len(a), Len(b))
        check(hi) == [a |-> hi.a, ok |-> hi.borrow = 0]
        rest(lo) == check(sub2_hi(lo.a, len + 1, lo.borrow))
    IN  rest(sub2_lo(a, b, 1, len, 0))

\* sub2(a, b): a -= b; ok is FALSE when the final assert! fails (a then
\* holds what the loops left in it)
sub2(a, b) ==
    LET len == Min(Len(a), Len(b))
        check(hi) == [a |-> hi.a,
                      ok |-> hi.borrow = 0 /\ AllZero(Tail_from(b, len + 1))]
        rest(lo) == check(sub2_hi(lo.a, len + 1, lo.borrow))
    IN  rest(sub2_lo(a, b, 1, len, 0))

\* __sub2rev(a, b), equal lengths: b = a - b, returning the borrow
RECURSIVE sub2rev_loop(_, _, _, _)
sub2rev_loop(a, b, i, borrow) ==
    IF i > Len(a) THEN [b |-> b, borrow |-> borrow]
    ELSE LET next(r) == sub2rev_loop(a, [b EXCEPT ![i] = r.out], i + 1, r.borrow)
         IN  next(sbb(borrow, a[i], b[i]))

__sub2rev(a, b) == sub2rev_loop(a, b, 1, 0)

\* sub2rev(a, b): b = a - b; ok is FALSE when one of its assert!s fails
sub2rev(a, b) ==
    LET len == Min(Len(a), Len(b))
        check(r) ==
            [b |-> r.b \o Tail_from(b, len + 1),
             ok |-> Len(a) <= len /\ r.borrow = 0 /\ AllZero(Tail_from(b, len + 1))]
    IN  check(__sub2rev(SubSeq(a, 1, len), SubSeq(b, 1, len)))

\* BigUint::normalize: strip the most-significant zero digits
RECURSIVE normalize(_)
normalize(a) ==
    IF a # <<>> /\ a[Len(a)] = 0 THEN normalize(SubSeq(a, 1, Len(a) - 1)) ELSE a

\* a plausible slip: the result is returned without renormalizing
sub_assign_NoNormalize(self, other) == sub2(self, other)

\* SubAssign<&Self> for BigUint: sub2, then normalize; a panic of sub2 leaves
\* self as sub2 left it
BigUint_sub_assign(self, other) ==
    LET finish(r) == [a |-> IF r.ok THEN normalize(r.a) ELSE r.a, ok |-> r.ok]
    IN  finish(sub2(self, other))

\* a plausible slip: the borrow out of other's length is not taken from
\* self's high digits
sub_rev_DropsBorrow(self, other) ==
    LET other_len == Len(other)
        join(lo) == [a |-> normalize(lo.b \o Tail_from(self, other_len + 1)),
                     ok |-> TRUE]
        finish(r) == [a |-> normalize(r.b), ok |-> r.ok]
    IN  IF other_len < Len(self)
        THEN join(__sub2rev(SubSeq(self, 1, other_len), other))
        ELSE finish(sub2rev(self, other))

\* Sub<BigUint> for &BigUint: self - other in other's buffer
BigUint_sub_rev(self, other) ==
    LET other_len == Len(other)
        \* the pending borrow is taken from self's high digits
        high(lo) ==
            IF lo.borrow # 0 THEN sub2(Tail_from(self, other_len + 1), <<1>>)
            ELSE [a |-> Tail_from(self, other_len + 1), ok |-> TRUE]
        join(lo, hi) == [a |-> normalize(lo.b \o hi.a), ok |-> hi.ok]
        long(lo) == join(lo, high(lo))
        finish(r) == [a |-> normalize(r.b), ok |-> r.ok]
    IN  IF other_len < Len(self)
        THEN long(__sub2rev(SubSeq(self, 1, other_len), other))
        ELSE finish(sub2rev(self, other))

\* the digits a scalar of type ty is handed to sub2 / sub2rev as
ScalarDigits(ty, x) ==
    LET two(hl) == <<hl.lo, hl.hi>>
        four(q) == <<q.d, q.c, q.b, q.a>>
    IN  IF ty = "u32" \/ (ty = "u64" /\ digit64) THEN <<x>>
        ELSE IF ty = "u64" \/ (ty = "u128" /\ digit64)
        THEN two(from_doublebigdigit(x))
        ELSE four(u32_from_u128(x))

\* SubAssign<u32 | u64 | u128> for BigUint
sub_assign_scalar(self, ty, other) ==
    BigUint_sub_assign(self, ScalarDigits(ty, other))

\* Sub<BigUint> for u32 | u64 | u128: scalar - other in other's buffer
scalar_sub(ty, x, other) ==
    LET finish(r) == [a |-> normalize(r.b), ok |-> r.ok]
        from(d) ==
            IF Len(d) = 1 /\ other = <<>>
            THEN [a |-> normalize(<<x>>), ok |-> TRUE]
            ELSE finish(sub2rev(d, IF Len(d) = 1 THEN other ELSE PadTo(other, Len(d))))
    IN  from(ScalarDigits(ty, x))

(***************************************************************************)
(* Unsigned Magnitude Engine: values, comparison, construction.            *)
(***************************************************************************)
\* the number a digit vector represents
RECURSIVE Value(_)
Value(a) == IF a = <<>> THEN 0 ELSE a[1] + Base * Value(Tail(a))

\* From<u64> / From<u128> for BigUint: push n as BigDigit, shift, until n = 0
RECURSIVE BigUint_from(_)
BigUint_from(x) ==
    IF x = 0 THEN <<>> ELSE <<x % Base>> \o BigUint_from(x \div Base)

\* Zero::is_zero for BigUint: the digit vector is empty
is_zero(a) == a = <<>>

\* Ord for BigUint: by length, then from the most significant digit down
RECURSIVE cmp_from(_, _, _)
cmp_from(a, b, i) ==
    IF i = 0 THEN "Equal"
    ELSE IF a[i] < b[i] THEN "Less"
    ELSE IF a[i] > b[i] THEN "Greater"
    ELSE cmp_from(a, b, i - 1)

cmp(a, b) ==
    IF Len(a) < Len(b) THEN "Less"
    ELSE IF Len(a) > Len(b) THEN "Greater"
    ELSE cmp_from(a, b, Len(a))

\* how a binary operator's operands are passed: owned (val) or borrowed (ref);
\* two owned operands of an addition are ordered by their Vec capacities,
\* which the caller does not control
Forms == {"ref_ref", "ref_val", "val_ref", "val_val", "val_val_swap"}

\* Add for BigUint in every form: each forwards to AddAssign<&Self>, on the
\* owned operand (val_ref, ref_val), on the one of larger capacity (val_val)
\* or on a clone of the longer one (ref_ref)
BigUint_add(form, a, b) ==
    CASE form = "val_ref" -> BigUint_add_assign(a, b)
      [] form = "ref_val" -> BigUint_add_assign(b, a)
      [] form = "val_val" -> BigUint_add_assign(a, b)
      [] form = "val_val_swap" -> BigUint_add_assign(b, a)
      [] form = "ref_ref" ->
            IF Len(a) >= Len(b) THEN BigUint_add_assign(a, b)
            ELSE BigUint_add_assign(b, a)

\* Sub for BigUint in every form: a - b is SubAssign<&Self> on a (or on its
\* clone), except &a - b, which is Sub<BigUint> for &BigUint
BigUint_sub(form, a, b) ==
    IF form = "ref_val" THEN BigUint_sub_rev(a, b) ELSE BigUint_sub_assign(a, b)

\* an Option<BigUint>: None, Some(digits), or the panic of the wrapped call
USome(d) == [status |-> IF d.ok THEN "some" ELSE "panic", a |-> d.a]
UNone == [status |-> "none", a |-> <<>>]

\* a plausible slip: equal operands are reported as an underflow
checked_sub_NoneOnEqual(self, v) ==
    IF cmp(self, v) = "Greater" THEN USome(BigUint_sub("ref_ref", self, v))
    ELSE UNone

\* CheckedSub for BigUint: match self.cmp(v) { Less => None,
\* Equal => Some(Self::ZERO), Greater => Some(self.sub(v)) }
checked_sub(self, v) ==
    CASE cmp(self, v) = "Less" -> UNone
      [] cmp(self, v) = "Equal" -> USome([a |-> <<>>, ok |-> TRUE])
      [] cmp(self, v) = "Greater" -> USome(BigUint_sub("ref_ref", self, v))

\* Mul for BigUint (and by a scalar): the normalized product
BigUint_mul(a, b) == BigUint_from(Value(a) * Value(b))

\* Div / Rem for BigUint (and by or of a scalar): ok is FALSE on a zero divisor
BigUint_div_rem(a, b) ==
    IF is_zero(b) THEN [ok |-> FALSE, q |-> <<>>, r |-> <<>>]
    ELSE [ok |-> TRUE, q |-> BigUint_from(Value(a) \div Value(b)),
          r |-> BigUint_from(Value(a) % Value(b))]

(***************************************************************************)
(* Radix conversion (biguint/convert.rs).  A u8 is scaled with the digit:  *)
(* it is as wide as a BigDigit, at most 8 bits, so that radices run over   *)
(* 2..=MaxRadix, the scaled 2..=256.  Text is a sequence of ASCII codes.   *)
(***************************************************************************)
\* bits of the scaled u8
ByteBits == IF DigitBits < 8 THEN DigitBits ELSE 8
\* the largest byte radix: the 256 of from_radix_le's assert!, scaled
MaxRadix == 2 ^ ByteBits
\* the largest text radix: the 36 of from_str_radix's assert!
MaxTextRadix == 36

\* x as u8
as_u8(x) == x % 2 ^ ByteBits

\* u32::is_power_of_two
is_power_of_two(x) == \E e \in 0..8 : x = 2 ^ e

\* fls: the position of the last set bit, fls(0) = 0
RECURSIVE fls(_)
fls(v) == IF v = 0 THEN 0 ELSE 1 + fls(v \div 2)

ilog2(v) == fls(v) - 1

\* x << k and x >> k on a BigDigit, and x | y
shl(x, k) == (x * 2 ^ k) % Base
shr(x, k) == x \div 2 ^ k
RECURSIVE BitOr(_, _)
BitOr(x, y) ==
    IF x = 0 THEN y
    ELSE IF y = 0 THEN x
    ELSE (IF x % 2 = 1 \/ y % 2 = 1 THEN 1 ELSE 0) + 2 * BitOr(x \div 2, y \div 2)

\* biguint_from_vec: the digits, normalized
biguint_from_vec(data) == normalize(data)

\* chunk.iter().rev().fold(0, |acc, &c| (acc << bits) | BigDigit::from(c))
RECURSIVE fold_bits(_, _)
fold_bits(chunk, bits) ==
    IF chunk = <<>> THEN 0
    ELSE BitOr(shl(fold_bits(Tail(chunk), bits), bits), chunk[1])

\* v.chunks(digits_per_big_digit).map(..).collect()
RECURSIVE bitwise_chunks(_, _, _)
bitwise_chunks(v, bits, per) ==
    IF v = <<>> THEN <<>>
    ELSE <<fold_bits(SubSeq(v, 1, Min(per, Len(v))), bits)>> \o
         bitwise_chunks(Tail_from(v, per + 1), bits, per)

\* from_bitwise_digits_le: a power-of-two radix whose bit width divides
\* BigDigit::BITS
from_bitwise_digits_le(v, bits) ==
    biguint_from_vec(bitwise_chunks(v, bits, DigitBits \div bits))

\* a plausible slip: the bits of c that did not fit in d are not carried over
RECURSIVE inexact_from_DropLostBits(_, _, _, _, _, _)
inexact_from_DropLostBits(v, i, bits, data, d, dbits) ==
    IF i > Len(v) THEN IF dbits > 0 THEN Append(data, d) ELSE data
    ELSE LET step(d1, dbits1) ==
                IF dbits1 >= DigitBits
                THEN inexact_from_DropLostBits(v, i + 1, bits, Append(data, d1),
                                               0, dbits1 - DigitBits)
                ELSE inexact_from_DropLostBits(v, i + 1, bits, data, d1, dbits1)
         IN  step(BitOr(d, shl(v[i], dbits)), dbits + bits)

\* from_inexact_bitwise_digits_le's loop from position i of v: bits are
\* accumulated in d, and a digit is pushed whenever BigDigit::BITS are there
RECURSIVE inexact_from(_, _, _, _, _, _)
inexact_from(v, i, bits, data, d, dbits) ==
    IF i > Len(v) THEN IF dbits > 0 THEN Append(data, d) ELSE data
    ELSE LET step(d1, dbits1) ==
                IF dbits1 >= DigitBits
                THEN inexact_from(v, i + 1, bits, Append(data, d1),
                                  shr(v[i], bits - (dbits1 - DigitBits)),
                                  dbits1 - DigitBits)
                ELSE inexact_from(v, i + 1, bits, data, d1, dbits1)
         IN  step(BitOr(d, shl(v[i], dbits)), dbits + bits)

\* from_inexact_bitwise_digits_le: a power-of-two radix whose bit width does
\* not divide BigDigit::BITS
from_inexact_bitwise_digits_le(v, bits) ==
    biguint_from_vec(inexact_from(v, 1, bits, <<>>, 0, 0))

\* big_digit::HALF: the largest value of half a digit
HALF == 2 ^ (DigitBits \div 2) - 1

\* a plausible slip: only the overflow of checked_mul ends the loop, the
\* bound max is not looked at
RECURSIVE radix_base_NoMaxTest(_, _, _, _, _)
radix_base_NoMaxTest(radix, max, digit_max, base, power) ==
    IF base * radix > digit_max THEN [base |-> base, power |-> power]
    ELSE radix_base_NoMaxTest(radix, max, digit_max, base * radix, power + 1)

\* generate_radix_bases' inner loop: base and power grow while
\* base.checked_mul(radix) succeeds (stays within the digit type, whose
\* largest value is digit_max) and stays within max
RECURSIVE radix_base_from(_, _, _, _, _)
radix_base_from(radix, max, digit_max, base, power) ==
    IF base * radix > digit_max \/ base * radix > max
    THEN [base |-> base, power |-> power]
    ELSE radix_base_from(radix, max, digit_max, base * radix, power + 1)

\* generate_radix_bases(max) for a digit type of largest value digit_max and
\* radices below radix_end (256): the greatest power of each radix within
\* max; powers of two, and the entries the loop never visits, are zeroed
generate_radix_bases(max, digit_max, radix_end) ==
    [radix \in 0..radix_end |->
        IF 3 <= radix /\ radix < radix_end /\ ~is_power_of_two(radix)
        THEN radix_base_from(radix, max, digit_max, radix, 1)
        ELSE [base |-> 0, power |-> 0]]

\* get_radix_base / get_half_radix_base in the scaled build of the
\* conversions: BASES[radix as usize]
get_radix_base(radix) == generate_radix_bases(DigitMax, DigitMax, MaxRadix)[radix]
get_half_radix_base(radix) == generate_radix_bases(HALF, DigitMax, MaxRadix)[radix]

\* mac_with_carry(a, b, c, &mut acc): the low digit of acc + a + b * c, the
\* rest left in acc
mac_with_carry(a, b, c, acc) ==
    LET split(x) == [lo |-> x % Base, carry |-> x \div Base]
    IN  split(acc + a + b * c)

\* for d in data.iter_mut() { *d = mac_with_carry(0, *d, base, &mut carry) }
RECURSIVE mac_digits(_, _, _, _)
mac_digits(data, i, base, carry) ==
    IF i > Len(data) THEN data
    ELSE LET next(m) == mac_digits([data EXCEPT ![i] = m.lo], i + 1, base, m.carry)
         IN  next(mac_with_carry(0, data[i], base, carry))

\* add2(a, b): a += b, the carry dropped
add2(a, b) == __add2(a, b).a

\* iter().fold(0, |acc, &d| acc * radix + BigDigit::from(d))
RECURSIVE fold_radix(_, _, _)
fold_radix(chunk, radix, acc) ==
    IF chunk = <<>> THEN acc
    ELSE fold_radix(Tail(chunk), radix, (acc * radix + chunk[1]) % Base)

\* from_radix_digits_be's loop over tail.chunks(power): data = data * base + n
RECURSIVE radix_chunks(_, _, _, _, _)
radix_chunks(tail, data, radix, base, power) ==
    IF tail = <<>> THEN data
    ELSE LET room(d) == IF d[Len(d)] # 0 THEN Append(d, 0) ELSE d
             \* data holds at least its first digit
             next(d) ==
                IF d = <<>> THEN d
                ELSE radix_chunks(Tail_from(tail, power + 1),
                                  add2(d, <<fold_radix(SubSeq(tail, 1, power),
                                                       radix, 0)>>),
                                  radix, base, power)
         IN  next(mac_digits(room(data), 1, base, 0))

\* from_radix_digits_be: big-endian digits of a radix that is not a power of
\* two, taken power digits at a time
from_radix_digits_be(v, radix) ==
    LET split(bp, i) ==
            biguint_from_vec(
                radix_chunks(Tail_from(v, i + 1),
                             <<fold_radix(SubSeq(v, 1, i), radix, 0)>>,
                             radix, bp.base, bp.power))
        head(bp) == split(bp, IF Len(v) % bp.power = 0 THEN bp.power
                              ELSE Len(v) % bp.power)
    IN  head(get_radix_base(radix))

\* v.reverse()
RECURSIVE reverse(_)
reverse(v) == IF v = <<>> THEN <<>> ELSE Append(reverse(Tail(v)), v[1])

\* the conversion from_radix_be, from_radix_le and from_str_radix share:
\* digits in the order given, most significant first when be
from_digits(v, radix, be) ==
    IF is_power_of_two(radix)
    THEN IF DigitBits % ilog2(radix) = 0
         THEN from_bitwise_digits_le(IF be THEN reverse(v) ELSE v, ilog2(radix))
         ELSE from_inexact_bitwise_digits_le(IF be THEN reverse(v) ELSE v,
                                             ilog2(radix))
    ELSE from_radix_digits_be(IF be THEN v ELSE reverse(v), radix)

\* the outcome of a call that panics before it computes anything
UPanic == [status |-> "panic", a |-> <<>>]

\* a plausible slip: the digit test is also made for the largest radix, where
\* radix as u8 is 0
from_radix_NoTopRadixGuard(buf, radix, be) ==
    IF ~(2 <= radix /\ radix <= MaxRadix) THEN UPanic
    ELSE IF buf = <<>> THEN USome([a |-> <<>>, ok |-> TRUE])
    ELSE IF \E i \in 1..Len(buf) : buf[i] >= as_u8(radix) THEN UNone
    ELSE USome([a |-> from_digits(buf, radix, be), ok |-> TRUE])

\* from_radix_be / from_radix_le: assert! on the radix, Some(ZERO) on an
\* empty buffer, None on a byte that is not a digit of the radix
from_radix(buf, radix, be) ==
    IF ~(2 <= radix /\ radix <= MaxRadix) THEN UPanic
    ELSE IF buf = <<>> THEN USome([a |-> <<>>, ok |-> TRUE])
    ELSE IF radix # MaxRadix /\ \E i \in 1..Len(buf) : buf[i] >= as_u8(radix)
    THEN UNone
    ELSE USome([a |-> from_digits(buf, radix, be), ok |-> TRUE])

from_radix_be(buf, radix) == from_radix(buf, radix, TRUE)
from_radix_le(buf, radix) == from_radix(buf, radix, FALSE)

\* to_bitwise_digits_le on one digit below the last: digits_per_big_digit
\* times push (r & mask) as u8, r >>= bits
RECURSIVE bitwise_full(_, _, _)
bitwise_full(r, bits, k) ==
    IF k = 0 THEN <<>>
    ELSE <<as_u8(r % 2 ^ bits)>> \o bitwise_full(shr(r, bits), bits, k - 1)

\* while r != 0 { res.push((r % radix) as u8); r /= radix }, which for
\* radix = 1 << bits is push (r & mask), r >>= bits
RECURSIVE digits_while(_, _)
digits_while(r, radix) ==
    IF r = 0 THEN <<>>
    ELSE <<as_u8(r % radix)>> \o digits_while(r \div radix, radix)

\* to_bitwise_digits_le: a power-of-two radix whose bit width divides
\* BigDigit::BITS, from position i of u.data
RECURSIVE to_bitwise_from(_, _, _)
to_bitwise_from(data, i, bits) ==
    IF i = Len(data) THEN digits_while(data[i], 2 ^ bits)
    ELSE bitwise_full(data[i], bits, DigitBits \div bits) \o
         to_bitwise_from(data, i + 1, bits)

to_bitwise_digits_le(data, bits) == to_bitwise_from(data, 1, bits)

\* to_inexact_bitwise_digits_le's inner loop, while rbits >= bits, on digit c
RECURSIVE inexact_to_inner(_, _, _, _, _)
inexact_to_inner(c, bits, res, r, rbits) ==
    IF rbits < bits THEN [res |-> res, r |-> r, rbits |-> rbits]
    ELSE inexact_to_inner(c, bits, Append(res, as_u8(r % 2 ^ bits)),
                          IF rbits > DigitBits
                          THEN shr(c, DigitBits - (rbits - bits))
                          ELSE shr(r, bits),
                          rbits - bits)

\* to_inexact_bitwise_digits_le's loop over u.data from position i
RECURSIVE inexact_to(_, _, _, _)
inexact_to(data, i, bits, st) ==
    IF i > Len(data)
    THEN IF st.rbits # 0 THEN Append(st.res, as_u8(st.r)) ELSE st.res
    ELSE inexact_to(data, i + 1, bits,
                    inexact_to_inner(data[i], bits, st.res,
                                     BitOr(st.r, shl(data[i], st.rbits)),
                                     st.rbits + DigitBits))

\* while let Some(&0) = res.last() { res.pop() }
pop_zeros(res) == normalize(res)

\* to_inexact_bitwise_digits_le without its closing loop that pops the zeros
to_inexact_KeepsZeros(data, bits) ==
    inexact_to(data, 1, bits, [res |-> <<>>, r |-> 0, rbits |-> 0])

\* to_inexact_bitwise_digits_le: a power-of-two radix whose bit width does
\* not divide BigDigit::BITS
to_inexact_bitwise_digits_le(data, bits) ==
    pop_zeros(inexact_to(data, 1, bits, [res |-> <<>>, r |-> 0, rbits |-> 0]))

\* div_rem_digit(a, b): the quotient and the remainder by one digit
div_rem_digit(a, b) == [q |-> BigUint_from(Value(a) \div b), r |-> Value(a) % b]

\* for _ in 0..power { res.push((r % radix) as u8); r /= radix }
RECURSIVE digits_for(_, _, _)
digits_for(r, radix, k) ==
    IF k = 0 THEN <<>>
    ELSE <<as_u8(r % radix)>> \o digits_for(r \div radix, radix, k - 1)

\* a plausible slip: every group of digits stops at its last nonzero digit
RECURSIVE radix_digits_NoPadding(_, _, _, _)
radix_digits_NoPadding(digits, radix, base, power) ==
    IF Len(digits) > 1
    THEN LET next(qr) == digits_while(qr.r, radix) \o
                         radix_digits_NoPadding(qr.q, radix, base, power)
         IN  next(div_rem_digit(digits, base))
    ELSE digits_while(digits[1], radix)

\* to_radix_digits_le's loops: while more than one digit is left, divide by
\* base and push power digits of the remainder; then the digits of the last
\* digit
RECURSIVE radix_digits(_, _, _, _)
radix_digits(digits, radix, base, power) ==
    IF Len(digits) > 1
    THEN LET next(qr) == digits_for(qr.r, radix, power) \o
                         radix_digits(qr.q, radix, base, power)
         IN  next(div_rem_digit(digits, base))
    ELSE digits_while(digits[1], radix)

\* the 64 of `if digits.data.len() >= 64`, scaled to the lengths of the
\* inputs: from this many digits on, the value is first divided by a larger
\* base
BigLen == 4

\* usize::sqrt: the integer square root
isqrt(k) == CHOOSE r \in 0..k : r * r <= k /\ (r + 1) * (r + 1) > k

\* a plausible slip: big_power is not doubled when big_base is squared
RECURSIVE big_base_KeepsPower(_, _, _)
big_base_KeepsPower(big_base, big_power, target_len) ==
    IF Len(big_base) < target_len
    THEN big_base_KeepsPower(BigUint_mul(big_base, big_base), big_power, target_len)
    ELSE [base |-> big_base, power |-> big_power]

\* while big_base.data.len() < target_len { big_base = &big_base * &big_base;
\* big_power *= 2 }
RECURSIVE big_base_for(_, _, _)
big_base_for(big_base, big_power, target_len) ==
    IF Len(big_base) < target_len
    THEN big_base_for(BigUint_mul(big_base, big_base), big_power * 2, target_len)
    ELSE [base |-> big_base, power |-> big_power]

\* for _ in 0..big_power { let (q, mut r) = div_rem_digit(big_r, base);
\* big_r = q; for _ in 0..power { res.push((r % radix) as u8); r /= radix } }
RECURSIVE big_digits(_, _, _, _, _)
big_digits(big_r, radix, base, power, k) ==
    IF k = 0 THEN <<>>
    ELSE LET next(qr) == digits_for(qr.r, radix, power) \o
                         big_digits(qr.q, radix, base, power, k - 1)
         IN  next(div_rem_digit(big_r, base))

\* while digits > big_base { let (q, big_r) = digits.div_rem(&big_base);
\* digits = q; .. }: the digits pushed, and the digits left
RECURSIVE big_loop(_, _, _, _, _, _)
big_loop(digits, res, radix, base, power, big) ==
    IF cmp(digits, big.base) = "Greater"
    THEN LET next(qr) ==
                 big_loop(qr.q, res \o big_digits(qr.r, radix, base, power, big.power),
                          radix, base, power, big)
         IN  next(BigUint_div_rem(digits, big.base))
    ELSE [res |-> res, digits |-> digits]

\* to_radix_digits_le up to its last two loops: the digits pushed by the
\* division by the larger base, if the value is long enough for it, and
\* the digits left
big_chunks(data, radix, base, power) ==
    IF Len(data) >= BigLen
    THEN big_loop(data, <<>>, radix, base, power,
                  big_base_for(BigUint_from(base), 1, isqrt(Len(data))))
    ELSE [res |-> <<>>, digits |-> data]

\* the digits left when `while digits.data.len() > 1` ends: what
\* `digits.data[0]` is read from
RECURSIVE group_rest(_, _)
group_rest(digits, base) ==
    IF Len(digits) > 1 THEN group_rest(div_rem_digit(digits, base).q, base)
    ELSE digits

\* the radix base of the call: FAST_DIV_WIDE selects the full-digit or the
\* half-digit base
base_of(radix, wide) ==
    IF wide THEN get_radix_base(radix) ELSE get_half_radix_base(radix)

\* whether to_radix_digits_le's closing `digits.data[0]` is within bounds
last_read_ok(data, radix, wide) ==
    LET rest(bp) ==
            group_rest(big_chunks(data, radix, bp.base, bp.power).digits, bp.base)
    IN  rest(base_of(radix, wide)) # <<>>

\* to_radix_digits_le: a radix that is not a power of two
to_radix_digits_le(data, radix, wide) ==
    LET finish(big, bp) ==
            big.res \o radix_digits(big.digits, radix, bp.base, bp.power)
        run(bp) == finish(big_chunks(data, radix, bp.base, bp.power), bp)
    IN  run(base_of(radix, wide))

\* a plausible slip: zero is exported as no digit at all
to_radix_le_ZeroEmpty(data, radix, wide) ==
    IF is_zero(data) THEN <<>>
    ELSE IF is_power_of_two(radix)
    THEN IF DigitBits % ilog2(radix) = 0
         THEN to_bitwise_digits_le(data, ilog2(radix))
         ELSE to_inexact_bitwise_digits_le(data, ilog2(radix))
    ELSE to_radix_digits_le(data, radix, wide)

\* to_radix_le: vec![0] for zero, else the digits by the radix's path
to_radix_le(data, radix, wide) ==
    IF is_zero(data) THEN <<0>>
    ELSE IF is_power_of_two(radix)
    THEN IF DigitBits % ilog2(radix) = 0
         THEN to_bitwise_digits_le(data, ilog2(radix))
         ELSE to_inexact_bitwise_digits_le(data, ilog2(radix))
    ELSE to_radix_digits_le(data, radix, wide)

\* whether to_radix_le returns: of its paths only to_radix_digits_le indexes
\* a digit vector that its loops have divided down
to_radix_le_returns(data, radix, wide) ==
    is_zero(data) \/ is_power_of_two(radix) \/ last_read_ok(data, radix, wide)

\* the ASCII codes from_str_radix and to_str_radix_reversed compare with
Ch0 == 48
Ch9 == 57
ChA == 65
ChZ == 90
Cha == 97
Chz == 122
ChPlus == 43
ChUnderscore == 95
U8MAX == 255

\* for r in &mut res { if *r < 10 { *r += b'0' } else { *r += b'a' - 10 } }
to_ascii(res) ==
    [i \in 1..Len(res) |-> IF res[i] < 10 THEN res[i] + Ch0 ELSE res[i] + Cha - 10]

\* to_str_radix_reversed: ok is FALSE when the assert! on the radix fails
\* (or to_radix_le panics)
to_str_radix_reversed(data, radix, wide) ==
    IF ~(2 <= radix /\ radix <= MaxTextRadix) THEN [a |-> <<>>, ok |-> FALSE]
    ELSE IF is_zero(data) THEN [a |-> <<Ch0>>, ok |-> TRUE]
    ELSE IF ~to_radix_le_returns(data, radix, wide) THEN [a |-> <<>>, ok |-> FALSE]
    ELSE [a |-> to_ascii(to_radix_le(data, radix, wide)), ok |-> TRUE]

\* s.strip_prefix('+'), kept only when the tail does not start with '+'
strip_plus(s) ==
    IF s # <<>> /\ s[1] = ChPlus /\ ~(Len(s) >= 2 /\ s[2] = ChPlus)
    THEN Tail(s) ELSE s

\* a plausible slip: an upper-case letter loses its offset of 10
digit_of_UpperFromZero(b) ==
    IF Ch0 <= b /\ b <= Ch9 THEN b - Ch0
    ELSE IF Cha <= b /\ b <= Chz THEN b - Cha + 10
    ELSE IF ChA <= b /\ b <= ChZ THEN b - ChA
    ELSE U8MAX

\* the digit value of a byte of the text: u8::MAX for a byte that is none
digit_of(b) ==
    IF Ch0 <= b /\ b <= Ch9 THEN b - Ch0
    ELSE IF Cha <= b /\ b <= Chz THEN b - Cha + 10
    ELSE IF ChA <= b /\ b <= ChZ THEN b - ChA + 10
    ELSE U8MAX

\* from_str_radix's loop over s.bytes() from position i: '_' is skipped, a
\* digit below the radix is pushed, anything else ends the parse
RECURSIVE text_digits(_, _, _, _)
text_digits(s, i, radix, v) ==
    IF i > Len(s) THEN [ok |-> TRUE, v |-> v]
    ELSE IF s[i] = ChUnderscore THEN text_digits(s, i + 1, radix, v)
    ELSE IF digit_of(s[i]) < radix
    THEN text_digits(s, i + 1, radix, Append(v, digit_of(s[i])))
    ELSE [ok |-> FALSE, v |-> v]

\* a plausible slip: the empty test is made before the '+' is stripped
from_str_radix_EmptyBeforePlus(s, radix) ==
    LET value(d) ==
            IF d.ok THEN [status |-> "ok", a |-> from_digits(d.v, radix, TRUE)]
            ELSE [status |-> "invalid", a |-> <<>>]
        parse(t) ==
            IF s = <<>> THEN [status |-> "empty", a |-> <<>>]
            ELSE IF t = <<>> \/ t[1] = ChUnderscore
            THEN [status |-> "invalid", a |-> <<>>]
            ELSE value(text_digits(t, 1, radix, <<>>))
    IN  IF ~(2 <= radix /\ radix <= MaxTextRadix) THEN UPanic
        ELSE parse(strip_plus(s))

\* Num::from_str_radix for BigUint: Ok(value), Err(empty), Err(invalid), or
\* the panic of the assert! on the radix
from_str_radix(s, radix) ==
    LET value(d) ==
            IF d.ok THEN [status |-> "ok", a |-> from_digits(d.v, radix, TRUE)]
            ELSE [status |-> "invalid", a |-> <<>>]
        parse(t) ==
            IF t = <<>> THEN [status |-> "empty", a |-> <<>>]
            ELSE IF t[1] = ChUnderscore THEN [status |-> "invalid", a |-> <<>>]
            ELSE value(text_digits(t, 1, radix, <<>>))
    IN  IF ~(2 <= radix /\ radix <= MaxTextRadix) THEN UPanic
        ELSE parse(strip_plus(s))

\* a plausible slip: the width test lets one digit too many through
RECURSIVE to_uint_OneDigitLate(_, _, _, _, _)
to_uint_OneDigitLate(data, i, ty, ret, bits) ==
    IF i > Len(data) THEN [some |-> TRUE, v |-> ret]
    ELSE IF bits > Bits(ty) THEN [some |-> FALSE, v |-> 0]
    ELSE to_uint_OneDigitLate(data, i + 1, ty,
                              (ret + ((data[i] * 2 ^ bits) % (2 ^ Bits(ty)))) % (2 ^ Bits(ty)),
                              bits + DigitBits)

\* to_u64 / to_u128: for i in self.data.iter() { if bits >= 64 { return None }
\* ret += u64::from(*i) << bits; bits += big_digit::BITS } (|= in to_u128;
\* the shifted digits do not overlap)
RECURSIVE to_uint(_, _, _, _, _)
to_uint(data, i, ty, ret, bits) ==
    IF i > Len(data) THEN [some |-> TRUE, v |-> ret]
    ELSE IF bits >= Bits(ty) THEN [some |-> FALSE, v |-> 0]
    ELSE to_uint(data, i + 1, ty,
                 (ret + ((data[i] * 2 ^ bits) % (2 ^ Bits(ty)))) % (2 ^ Bits(ty)),
                 bits + DigitBits)

to_u64(data) == to_uint(data, 1, "u64", 0, 0)
to_u128(data) == to_uint(data, 1, "u128", 0, 0)

\* .as_ref().and_then(u64::to_i64): Some when the value fits the signed type
and_then_signed(o, ty) ==
    IF o.some /\ o.v <= MaxOf(ty) THEN o ELSE [some |-> FALSE, v |-> 0]

to_i64(data) == and_then_signed(to_u64(data), "i64")
to_i128(data) == and_then_signed(to_u128(data), "i128")

\* ToPrimitive for BigUint, by target type
to_prim(data, ty) ==
    CASE ty = "u64" -> to_u64(data)
      [] ty = "u128" -> to_u128(data)
      [] ty = "i64" -> to_i64(data)
      [] ty = "i128" -> to_i128(data)

\* TryFrom<BigUint> for a primitive: Ok(v), or Err carrying the value
try_from(value, ty) ==
    LET result(o) == IF o.some THEN [ok |-> TRUE, v |-> o.v, err |-> <<>>]
                     ELSE [ok |-> FALSE, v |-> 0, err |-> value]
    IN  result(to_prim(value, ty))

\* BigUint::bits: the number of bits up to the highest set one
BigUint_bits(data) ==
    IF data = <<>> THEN 0
    ELSE (Len(data) - 1) * DigitBits + fls(data[Len(data)])

\* x << k on a u64 (the bits shifted out are lost)
shl64(x, k) == (x * 2 ^ k) % (2 ^ Bits("u64"))

\* high_bits_to_u64: for d in v.data.iter().rev(), from digit i down
RECURSIVE high_bits_from(_, _, _, _, _)
high_bits_from(data, i, bits, ret, ret_bits) ==
    IF i = 0 THEN ret
    ELSE
        LET digit_bits == ((bits - 1) % DigitBits) + 1
            bits_want == Min(Bits("u64") - ret_bits, digit_bits)
            \* if bits_want != 0 { if bits_want != 64 { ret <<= bits_want }
            \*                     ret |= d >> (digit_bits - bits_want) }
            taken ==
                IF bits_want # 0
                THEN BitOr(IF bits_want # Bits("u64") THEN shl64(ret, bits_want)
                           ELSE ret,
                           shr(data[i], digit_bits - bits_want))
                ELSE ret
            \* if digit_bits - bits_want != 0 {
            \*     let masked = d << (64 - (digit_bits - bits_want));
            \*     ret |= (masked != 0) as u64 }
            sticky(r) ==
                IF digit_bits - bits_want # 0
                THEN BitOr(r, IF shl64(data[i],
                                       Bits("u64") - (digit_bits - bits_want)) # 0
                              THEN 1 ELSE 0)
                ELSE r
        IN  high_bits_from(data, i - 1, bits - bits_want, sticky(taken),
                           ret_bits + bits_want)

\* high_bits_to_u64(v)
high_bits_to_u64(data) ==
    CASE Len(data) = 0 -> 0
      [] Len(data) = 1 -> data[1]
      [] OTHER -> high_bits_from(data, Len(data), BigUint_bits(data), 0, 0)

(***************************************************************************)
(* Construction from primitives (biguint/convert.rs).  An f64 is scaled    *)
(* with the other widths: a finite one is sign * mant * 2^exp with a       *)
(* mantissa of MantBits bits, one less than the scaled u64 has, its top    *)
(* bit set unless the number is zero.                                      *)
(***************************************************************************)
\* bits of the mantissa integer_decode returns (53 for f64, below u64's 64)
MantBits == 2 * ScalarBits - 1
\* the least exponent: numbers below it are all fractions
MinExp == 0 - (MantBits + 1)

\* an f64: kind is "finite", "nan", "inf" or "neg_inf"
F64(kind, sign, mant, exp) ==
    [kind |-> kind, sign |-> sign, mant |-> mant, exp |-> exp]

\* f64::is_finite
is_finite(x) == x.kind = "finite"

\* f64::trunc: the fraction bits of the mantissa are cleared, the sign is kept
\* (a fraction becomes 0.0 or -0.0)
trunc(x) ==
    IF x.exp >= 0 THEN x
    ELSE LET whole(m) ==
                 IF m = 0 THEN F64("finite", x.sign, 0, MinExp)
                 ELSE F64("finite", x.sign, m, x.exp)
         IN  whole((x.mant \div 2 ^ (0 - x.exp)) * 2 ^ (0 - x.exp))

\* Zero::is_zero for f64: true of 0.0 and of -0.0
f64_is_zero(x) == x.mant = 0

\* FloatCore::integer_decode: (mantissa, exponent, sign)
integer_decode(x) == [mantissa |-> x.mant, exponent |-> x.exp, sign |-> x.sign]

\* ret <<= k and ret >>= k on a BigUint
BigUint_shl(a, k) == BigUint_from(Value(a) * 2 ^ k)
BigUint_shr(a, k) == BigUint_from(Value(a) \div 2 ^ k)

\* match exponent.cmp(&0) { Greater => ret <<= exponent, Equal => {},
\* Less => ret >>= -exponent }
shift_by(ret, exponent) ==
    IF exponent > 0 THEN BigUint_shl(ret, exponent)
    ELSE IF exponent = 0 THEN ret
    ELSE BigUint_shr(ret, 0 - exponent)

\* Some(ret) of a construction that cannot panic
SomeUint(ret) == USome([ok |-> TRUE, a |-> ret])

\* from_f64 after the zero test: None on a negative sign, else the mantissa
\* shifted by the exponent
from_decoded(d) ==
    IF d.sign = 0 - 1 THEN UNone
    ELSE SomeUint(shift_by(BigUint_from(d.mantissa), d.exponent))

\* a plausible slip: no early return on zero, so -0.x is decoded with its sign
from_f64_NoZeroReturn(x) ==
    IF ~is_finite(x) THEN UNone
    ELSE from_decoded(integer_decode(trunc(x)))

\* FromPrimitive::from_f64 for BigUint
from_f64(x) ==
    LET truncated(t) ==
            IF f64_is_zero(t) THEN SomeUint(<<>>)
            ELSE from_decoded(integer_decode(t))
    IN  IF ~is_finite(x) THEN UNone
        ELSE truncated(trunc(x))

\* FromPrimitive::from_i64 / from_i128 for BigUint: n as u64 / n as u128
from_int(x) ==
    IF x >= 0 THEN SomeUint(BigUint_from(x)) ELSE UNone

(***************************************************************************)
(* Signed Wrapper: signs, construction, negation.                          *)
(***************************************************************************)
Signs == {"Minus", "NoSign", "Plus"}

\* Neg for Sign
Sign_neg(s) ==
    CASE s = "Minus" -> "Plus"
      [] s = "NoSign" -> "NoSign"
      [] s = "Plus" -> "Minus"

\* a plausible slip: NoSign is not absorbing
Sign_mul_NoAbsorb(s, t) ==
    IF s = "NoSign" THEN t
    ELSE IF t = "NoSign" THEN s
    ELSE IF s = t THEN "Plus" ELSE "Minus"

\* Mul<Self> for Sign
Sign_mul(s, t) ==
    IF s = "NoSign" \/ t = "NoSign" THEN "NoSign"
    ELSE IF s = t THEN "Plus" ELSE "Minus"

BigInt(sign, data) == [sign |-> sign, data |-> data]

\* BigInt::ZERO
ZERO == BigInt("NoSign", <<>>)

\* BigInt::from_biguint: NoSign clears the magnitude, a zero magnitude
\* clears the sign
from_biguint(sign, data) ==
    IF sign = "NoSign" THEN ZERO
    ELSE IF is_zero(data) THEN ZERO
    ELSE BigInt(sign, data)

\* From<BigUint> for BigInt
BigInt_from(data) == IF is_zero(data) THEN ZERO ELSE BigInt("Plus", data)

\* From<u32 | u64 | u128> for BigInt
BigInt_from_scalar(x) == BigInt_from(BigUint_from(x))

\* Neg for BigInt
BigInt_neg(x) == BigInt(Sign_neg(x.sign), x.data)

\* Zero::is_zero, Signed::is_negative, Signed::is_positive for BigInt
BigInt_is_zero(x) == x.sign = "NoSign"
is_negative(x) == x.sign = "Minus"
is_positive(x) == x.sign = "Plus"

\* UnsignedAbs::checked_uabs: Positive(u) or Negative(u), u the absolute
\* value in the unsigned type of the same width
checked_uabs(i) ==
    IF i >= 0 THEN [neg |-> FALSE, u |-> i] ELSE [neg |-> TRUE, u |-> 0 - i]

\* unsigned_abs
unsigned_abs(i) == IF i >= 0 THEN i ELSE 0 - i

\* the integer a BigInt denotes
IntValue(x) ==
    CASE x.sign = "Minus" -> 0 - Value(x.data)
      [] x.sign = "NoSign" -> 0
      [] x.sign = "Plus" -> Value(x.data)

\* a panic unwinds out of every caller: a result whose parts all returned
Panicked == [ok |-> FALSE, v |-> ZERO]
Returned(x) == [ok |-> TRUE, v |-> x]

\* a BigUint subtraction's outcome as a BigInt of the given sign
SignedDiff(sign, d) == [ok |-> d.ok, v |-> from_biguint(sign, d.a)]

\* the form the reversed difference $b_data - $a_data takes when $a_data +
\* $b_data has the given form
Flip(form) ==
    CASE form = "ref_val" -> "val_ref"
      [] form = "val_ref" -> "ref_val"
      [] form = "val_val_swap" -> "val_val"
      [] OTHER -> form

(***************************************************************************)
(* Signed addition (bigint/addition.rs).                                   *)
(***************************************************************************)
\* a plausible slip: opposite signs always keep the sign of the left operand
bigint_add_KeepLeftSign(form, a, b) ==
    IF b.sign = "NoSign" THEN Returned(a)
    ELSE IF a.sign = "NoSign" THEN Returned(b)
    ELSE IF a.sign = b.sign
    THEN Returned(from_biguint(a.sign, BigUint_add(form, a.data, b.data)))
    ELSE LET differ(ord) ==
                 CASE ord = "Less" ->
                        SignedDiff(a.sign, BigUint_sub(Flip(form), b.data, a.data))
                   [] ord = "Greater" ->
                        SignedDiff(a.sign, BigUint_sub(form, a.data, b.data))
                   [] ord = "Equal" -> Returned(ZERO)
         IN  differ(cmp(a.data, b.data))

\* bigint_add!: Add for BigInt in each owned/borrowed form
bigint_add(form, a, b) ==
    IF b.sign = "NoSign" THEN Returned(a)
    ELSE IF a.sign = "NoSign" THEN Returned(b)
    ELSE IF a.sign = b.sign
    THEN Returned(from_biguint(a.sign, BigUint_add(form, a.data, b.data)))
    ELSE LET differ(ord) ==
                 CASE ord = "Less" ->
                        SignedDiff(b.sign, BigUint_sub(Flip(form), b.data, a.data))
                   [] ord = "Greater" ->
                        SignedDiff(a.sign, BigUint_sub(form, a.data, b.data))
                   [] ord = "Equal" -> Returned(ZERO)
         IN  differ(cmp(a.data, b.data))

\* AddAssign<&Self> for BigInt: n = mem::replace(self, ZERO); *self = n + other
BigInt_add_assign(self, other) == bigint_add("val_ref", self, other)

\* the negation of a returned BigInt
NegResult(r) == [ok |-> r.ok, v |-> BigInt_neg(r.v)]

\* a BigUint subtraction's outcome as a non-negative BigInt
FromDiff(d) == [ok |-> d.ok, v |-> BigInt_from(d.a)]

\* Add<u32 | u64 | u128> for BigInt
add_unsigned(self, ty, other) ==
    LET minus(ord) ==
            CASE ord = "Equal" -> Returned(ZERO)
              [] ord = "Less" -> FromDiff(scalar_sub(ty, other, self.data))
              [] ord = "Greater" ->
                    NegResult(FromDiff(sub_assign_scalar(self.data, ty, other)))
    IN  CASE self.sign = "NoSign" -> Returned(BigInt_from_scalar(other))
          [] self.sign = "Plus" ->
                Returned(BigInt_from(add_assign_scalar(self.data, ty, other)))
          [] self.sign = "Minus" -> minus(cmp(self.data, BigUint_from(other)))

\* Sub<u32 | u64 | u128> for BigInt (bigint/subtraction.rs): the mirror image
\* of add_unsigned
sub_unsigned(self, ty, other) ==
    LET plus(ord) ==
            CASE ord = "Equal" -> Returned(ZERO)
              [] ord = "Greater" -> FromDiff(sub_assign_scalar(self.data, ty, other))
              [] ord = "Less" -> NegResult(FromDiff(scalar_sub(ty, other, self.data)))
    IN  CASE self.sign = "NoSign" -> Returned(BigInt_neg(BigInt_from_scalar(other)))
          [] self.sign = "Minus" ->
                Returned(BigInt_neg(BigInt_from(
                    add_assign_scalar(self.data, ty, other))))
          [] self.sign = "Plus" -> plus(cmp(self.data, BigUint_from(other)))

\* Sub for BigInt (bigint/subtraction.rs): the mirror image of bigint_add!
bigint_sub(form, a, b) ==
    IF b.sign = "NoSign" THEN Returned(a)
    ELSE IF a.sign = "NoSign" THEN Returned(BigInt_neg(b))
    ELSE IF a.sign # b.sign
    THEN Returned(from_biguint(a.sign, BigUint_add(form, a.data, b.data)))
    ELSE LET same(ord) ==
                 CASE ord = "Less" ->
                        SignedDiff(Sign_neg(a.sign),
                                   BigUint_sub(Flip(form), b.data, a.data))
                   [] ord = "Greater" ->
                        SignedDiff(a.sign, BigUint_sub(form, a.data, b.data))
                   [] ord = "Equal" -> Returned(ZERO)
         IN  same(cmp(a.data, b.data))

\* Add<i32 | i64 | i128> for BigInt, and AddAssign of the same
add_signed(self, ty, other) ==
    LET c == checked_uabs(other)
    IN  IF c.neg THEN sub_unsigned(self, UnsignedOf(ty), c.u)
        ELSE add_unsigned(self, UnsignedOf(ty), c.u)

\* Sub<i32 | i64 | i128> for BigInt (bigint/subtraction.rs)
sub_signed(self, ty, other) ==
    LET c == checked_uabs(other)
    IN  IF c.neg THEN add_unsigned(self, UnsignedOf(ty), c.u)
        ELSE sub_unsigned(self, UnsignedOf(ty), c.u)

\* Add<primitive> for BigInt, by the primitive's type
add_prim(self, ty, other) ==
    IF ty \in UnsignedTypes THEN add_unsigned(self, ty, other)
    ELSE add_signed(self, ty, other)

(***************************************************************************)
(* Signed multiplication (bigint/multiplication.rs).                       *)
(***************************************************************************)
\* impl_mul!: Mul for BigInt in each owned/borrowed form
BigInt_mul(a, b) ==
    from_biguint(Sign_mul(a.sign, b.sign), BigUint_mul(a.data, b.data))

\* impl_mul_assign!: MulAssign<BigInt | &BigInt> for BigInt
mul_assign(self, other) ==
    LET store(data) ==
            IF is_zero(data) THEN BigInt("NoSign", data)
            ELSE BigInt(Sign_mul(self.sign, other.sign), data)
    IN  store(BigUint_mul(self.data, other.data))

\* Mul<u32 | u64 | u128> for BigInt
mul_unsigned(self, other) ==
    from_biguint(self.sign, BigUint_mul(self.data, BigUint_from(other)))

\* MulAssign<u32 | u64 | u128> for BigInt
mul_assign_unsigned(self, other) ==
    LET store(data) ==
            IF is_zero(data) THEN BigInt("NoSign", data) ELSE BigInt(self.sign, data)
    IN  store(BigUint_mul(self.data, BigUint_from(other)))

\* Mul<i32 | i64 | i128> for BigInt
mul_signed(self, other) ==
    LET c == checked_uabs(other)
    IN  IF c.neg THEN mul_unsigned(BigInt_neg(self), c.u)
        ELSE mul_unsigned(self, c.u)

\* MulAssign<i32 | i64 | i128> for BigInt
mul_assign_signed(self, other) ==
    LET c == checked_uabs(other)
    IN  IF c.neg
        THEN BigInt(Sign_neg(self.sign), BigUint_mul(self.data, BigUint_from(c.u)))
        ELSE mul_assign_unsigned(self, c.u)

mul_prim(self, ty, other) ==
    IF ty \in UnsignedTypes THEN mul_unsigned(self, other)
    ELSE mul_signed(self, other)

mul_assign_prim(self, ty, other) ==
    IF ty \in UnsignedTypes THEN mul_assign_unsigned(self, other)
    ELSE mul_assign_signed(self, other)

(***************************************************************************)
(* Signed division and remainder (bigint/division.rs).                     *)
(***************************************************************************)
NoPair == [ok |-> FALSE, q |-> ZERO, r |-> ZERO]

\* the quotient and the remainder of a returned pair
QuotOf(p) == [ok |-> p.ok, v |-> p.q]
RemOf(p) == [ok |-> p.ok, v |-> p.r]

\* self.data = value, with the sign cleared when the value is zero
Store(sign, ok, data) ==
    [ok |-> ok, v |-> IF is_zero(data) THEN BigInt("NoSign", data)
                      ELSE BigInt(sign, data)]

\* Integer::div_rem for BigInt: unsigned division of the magnitudes; both
\* parts take the sign of self, the quotient is negated for a negative other
div_rem(self, other) ==
    LET signed(d) ==
            IF ~d.ok THEN NoPair
            ELSE [ok |-> TRUE,
                  q |-> IF is_negative(other)
                        THEN BigInt_neg(from_biguint(self.sign, d.q))
                        ELSE from_biguint(self.sign, d.q),
                  r |-> from_biguint(self.sign, d.r)]
    IN  signed(BigUint_div_rem(self.data, other.data))

\* Div<&BigInt> for &BigInt, and DivAssign<&Self>: *self = &*self / other
BigInt_div(self, other) == QuotOf(div_rem(self, other))

\* Div<u32 | u64 | u128> for BigInt
div_unsigned(self, other) ==
    LET signed(d) == [ok |-> d.ok, v |-> from_biguint(self.sign, d.q)]
    IN  signed(BigUint_div_rem(self.data, BigUint_from(other)))

\* a plausible slip: the sign is kept when the quotient is zero
div_assign_unsigned_KeepSign(self, other) ==
    LET store(d) == [ok |-> d.ok, v |-> BigInt(self.sign, d.q)]
    IN  store(BigUint_div_rem(self.data, BigUint_from(other)))

\* DivAssign<u32 | u64 | u128> for BigInt
div_assign_unsigned(self, other) ==
    LET store(d) == Store(self.sign, d.ok, d.q)
    IN  store(BigUint_div_rem(self.data, BigUint_from(other)))

\* Div<BigInt> for u32 | u64 | u128
unsigned_div(x, other) ==
    LET signed(d) == [ok |-> d.ok, v |-> from_biguint(other.sign, d.q)]
    IN  signed(BigUint_div_rem(BigUint_from(x), other.data))

\* a plausible slip: a negative divisor does not flip the quotient's sign
div_signed_NoFlip(self, other) ==
    div_unsigned(self, checked_uabs(other).u)

\* Div<i32 | i64 | i128> for BigInt
div_signed(self, other) ==
    LET c == checked_uabs(other)
    IN  IF c.neg THEN div_unsigned(BigInt_neg(self), c.u)
        ELSE div_unsigned(self, c.u)

\* DivAssign<i32 | i64 | i128> for BigInt
div_assign_signed(self, other) ==
    LET c == checked_uabs(other)
    IN  IF c.neg
        THEN div_assign_unsigned(BigInt(Sign_neg(self.sign), self.data), c.u)
        ELSE div_assign_unsigned(self, c.u)

\* Div<BigInt> for i32 | i64 | i128
signed_div(x, other) ==
    LET c == checked_uabs(x)
    IN  IF c.neg THEN unsigned_div(c.u, BigInt_neg(other))
        ELSE unsigned_div(c.u, other)

\* Rem<u32 | u64 | u128> for BigInt
rem_unsigned(self, other) ==
    LET signed(d) == [ok |-> d.ok, v |-> from_biguint(self.sign, d.r)]
    IN  signed(BigUint_div_rem(self.data, BigUint_from(other)))

\* RemAssign<u32 | u64 | u128> for BigInt
rem_assign_unsigned(self, other) ==
    LET store(d) == Store(self.sign, d.ok, d.r)
    IN  store(BigUint_div_rem(self.data, BigUint_from(other)))

\* Rem<BigInt> for u32 | u64 | u128
unsigned_rem(x, other) ==
    LET positive(d) == [ok |-> d.ok, v |-> BigInt_from(d.r)]
    IN  positive(BigUint_div_rem(BigUint_from(x), other.data))

\* Rem<i32 | i64 | i128> for BigInt
rem_signed(self, other) == rem_unsigned(self, unsigned_abs(other))

\* RemAssign<i32 | i64 | i128> for BigInt
rem_assign_signed(self, other) == rem_assign_unsigned(self, unsigned_abs(other))

\* Rem<BigInt> for i32 | i64 | i128
signed_rem(x, other) ==
    LET c == checked_uabs(x)
    IN  IF c.neg THEN NegResult(unsigned_rem(c.u, other))
        ELSE unsigned_rem(c.u, other)

\* ToPrimitive::to_u32 / to_i32 for BigInt: Some exactly when the value fits
to_u32_is_some(x) == ~is_negative(x) /\ Value(x.data) <= MaxOf("u32")
to_i32_is_some(x) ==
    IF is_negative(x) THEN Value(x.data) <= 0 - MinOf("i32")
    ELSE Value(x.data) <= MaxOf("i32")

\* a plausible slip: on the i32 path the remainder takes the divisor's sign
BigInt_rem_SignedPathFlips(self, other) ==
    IF to_u32_is_some(other) THEN rem_unsigned(self, IntValue(other))
    ELSE IF to_i32_is_some(other) THEN NegResult(rem_signed(self, IntValue(other)))
    ELSE RemOf(div_rem(self, other))

\* Rem<&BigInt> for &BigInt: the u32 path, the i32 path, the div_rem path
BigInt_rem(self, other) ==
    IF to_u32_is_some(other) THEN rem_unsigned(self, IntValue(other))
    ELSE IF to_i32_is_some(other) THEN rem_signed(self, IntValue(other))
    ELSE RemOf(div_rem(self, other))

div_prim(self, ty, other) ==
    IF ty \in UnsignedTypes THEN div_unsigned(self, other) ELSE div_signed(self, other)
div_assign_prim(self, ty, other) ==
    IF ty \in UnsignedTypes THEN div_assign_unsigned(self, other)
    ELSE div_assign_signed(self, other)
prim_div(ty, x, other) ==
    IF ty \in UnsignedTypes THEN unsigned_div(x, other) ELSE signed_div(x, other)
rem_prim(self, ty, other) ==
    IF ty \in UnsignedTypes THEN rem_unsigned(self, other) ELSE rem_signed(self, other)
rem_assign_prim(self, ty, other) ==
    IF ty \in UnsignedTypes THEN rem_assign_unsigned(self, other)
    ELSE rem_assign_signed(self, other)
prim_rem(ty, x, other) ==
    IF ty \in UnsignedTypes THEN unsigned_rem(x, other) ELSE signed_rem(x, other)

(***************************************************************************)
(* Euclidean and checked division (bigint/division.rs).                    *)
(***************************************************************************)
\* a plausible slip: the quotient is always adjusted downwards
div_euclid_AlwaysDown(self, v) ==
    LET adjust(p) ==
            IF ~p.ok THEN Panicked
            ELSE IF is_negative(p.r) THEN sub_signed(p.q, "i32", 1)
            ELSE Returned(p.q)
    IN  adjust(div_rem(self, v))

\* Euclid::div_euclid for BigInt
div_euclid(self, v) ==
    LET adjust(p) ==
            IF ~p.ok THEN Panicked
            ELSE IF is_negative(p.r)
            THEN IF is_positive(v) THEN sub_signed(p.q, "i32", 1)
                 ELSE add_signed(p.q, "i32", 1)
            ELSE Returned(p.q)
    IN  adjust(div_rem(self, v))

\* a plausible slip: the remainder is returned as the operator % leaves it
rem_euclid_NoAdjust(self, v) == BigInt_rem(self, v)

\* Euclid::rem_euclid for BigInt
rem_euclid(self, v) ==
    LET adjust(r) ==
            IF ~r.ok THEN Panicked
            ELSE IF is_negative(r.v)
            THEN IF is_positive(v) THEN bigint_add("val_ref", r.v, v)
                 ELSE bigint_sub("val_ref", r.v, v)
            ELSE r
    IN  adjust(BigInt_rem(self, v))

\* Euclid::div_rem_euclid for BigInt
div_rem_euclid(self, v) ==
    LET pair(q, r) == [ok |-> q.ok /\ r.ok, q |-> q.v, r |-> r.v]
        adjust(p) ==
            IF ~p.ok THEN NoPair
            ELSE IF is_negative(p.r)
            THEN IF is_positive(v)
                 THEN pair(sub_signed(p.q, "i32", 1), bigint_add("val_ref", p.r, v))
                 ELSE pair(add_signed(p.q, "i32", 1), bigint_sub("val_ref", p.r, v))
            ELSE p
    IN  adjust(div_rem(self, v))

\* an Option<BigInt>, or the panic that prevented its return
None == [status |-> "none", q |-> ZERO, r |-> ZERO]
SomeOf(x) ==
    IF x.ok THEN [status |-> "some", q |-> x.v, r |-> ZERO]
    ELSE [status |-> "panic", q |-> ZERO, r |-> ZERO]
SomePair(p) ==
    IF p.ok THEN [status |-> "some", q |-> p.q, r |-> p.r]
    ELSE [status |-> "panic", q |-> ZERO, r |-> ZERO]

\* a plausible slip: the zero test is made on self
checked_div_TestsSelf(self, v) ==
    IF BigInt_is_zero(self) THEN None ELSE SomeOf(BigInt_div(self, v))

\* CheckedDiv::checked_div for BigInt
checked_div(self, v) ==
    IF BigInt_is_zero(v) THEN None ELSE SomeOf(BigInt_div(self, v))

\* CheckedEuclid::checked_div_euclid for BigInt
checked_div_euclid(self, v) ==
    IF BigInt_is_zero(v) THEN None ELSE SomeOf(div_euclid(self, v))

\* CheckedEuclid::checked_rem_euclid for BigInt
checked_rem_euclid(self, v) ==
    IF BigInt_is_zero(v) THEN None ELSE SomeOf(rem_euclid(self, v))

\* CheckedEuclid::checked_div_rem_euclid for BigInt
checked_div_rem_euclid(self, v) == SomePair(div_rem_euclid(self, v))

(***************************************************************************)
(* Inputs.                                                                 *)
(***************************************************************************)
\* the digits inputs are drawn over: the ends of a digit range
DigitValsTo(dmax) == {0, 1, 2, dmax}

RECURSIVE SeqsOfLen(_, _)
SeqsOfLen(k, dmax) ==
    IF k = 0 THEN {<<>>}
    ELSE {Append(a, d) : a \in SeqsOfLen(k - 1, dmax), d \in DigitValsTo(dmax)}

\* normalized magnitudes of at most len digits over the boundary digits
MagsTo(len, dmax) ==
    {a \in UNION {SeqsOfLen(k, dmax) : k \in 0..len} : normalize(a) = a}

\* long normalized magnitudes: all digits at the maximum, the same below a
\* top digit of 1, and zeros below a top digit of 1
RECURSIVE Repeat(_, _)
Repeat(d, k) == IF k = 0 THEN <<>> ELSE Append(Repeat(d, k - 1), d)

LongMagsTo(from, to, dmax) ==
    UNION {{Repeat(dmax, k), Append(Repeat(dmax, k - 1), 1),
            Append(Repeat(0, k - 1), 1)} : k \in (from + 1)..to}

IntsOver(mags) ==
    {ZERO} \cup {BigInt(sg, a) : sg \in {"Minus", "Plus"}, a \in mags \ {<<>>}}

\* the inputs of the 32-bit digit build: lengths are counted in u32 words
DigitMax32 == 2 ^ ScalarBits - 1
InputMags32 == MagsTo(MaxLen, DigitMax32)
UintInputs32 == InputMags32 \cup LongMagsTo(MaxLen, MaxLongLen, DigitMax32)
IntInputs32 == IntsOver(InputMags32)

\* the inputs of the 64-bit digit build: a digit is two u32 words
DigitMax64 == 2 ^ (2 * ScalarBits) - 1
InputMags64 == MagsTo((MaxLen + 1) \div 2, DigitMax64)
UintInputs64 ==
    InputMags64 \cup
    LongMagsTo((MaxLen + 1) \div 2, (MaxLongLen + 1) \div 2, DigitMax64)
IntInputs64 == IntsOver(InputMags64)

InputMags == IF digit64 THEN InputMags64 ELSE InputMags32
UintInputs == IF digit64 THEN UintInputs64 ELSE UintInputs32
IntInputs == IF digit64 THEN IntInputs64 ELSE IntInputs32

\* values around the powers of two where the primitive widths end
Boundary ==
    {0, 1, 2} \cup
    UNION {{2 ^ e - 1, 2 ^ e, 2 ^ e + 1} :
           e \in {ScalarBits - 1, ScalarBits, 2 * ScalarBits - 1, 2 * ScalarBits,
                  4 * ScalarBits - 1, 4 * ScalarBits}}

PrimTypes == UnsignedTypes \cup SignedTypes

PrimVals(ty) ==
    {v \in Boundary \cup {0 - x : x \in Boundary} : MinOf(ty) <= v /\ v <= MaxOf(ty)}

(***************************************************************************)
(* The caller: one BigInt held in n, one BigUint held in u; every call is  *)
(* recorded with its operands and its outcome.                             *)
(***************************************************************************)
NoCall ==
    [op |-> "none", form |-> "", ty |-> "", k |-> 0, a |-> ZERO, b |-> ZERO,
     status |-> "", q |-> ZERO, r |-> ZERO]

NoUCall ==
    [op |-> "none", form |-> "", ty |-> "", k |-> 0, a |-> <<>>, b |-> <<>>,
     status |-> "", out |-> <<>>]

\* no conversion argument
NoArg == [kind |-> "none", buf |-> <<>>, radix |-> 0]

\* the record of a BigInt call on n
Call(op, form, ty, k, b, status, q, r) ==
    [op |-> op, form |-> form, ty |-> ty, k |-> k, a |-> n, b |-> b,
     status |-> status, q |-> q, r |-> r]

StatusOf(x) == IF x.ok THEN "ok" ELSE "panic"

\* the record of a call that returns one BigInt, a pair, an Option
One(op, form, ty, k, b, x) == Call(op, form, ty, k, b, StatusOf(x), x.v, ZERO)
Pair(op, b, p) == Call(op, "", "", 0, b, StatusOf(p), p.q, p.r)
Opt(op, b, o) == Call(op, "", "", 0, b, o.status, o.q, o.r)

\* a call that leaves n alone and returns (or panics)
IntCall(rec) ==
    /\ last' = rec
    /\ pc' = IF rec.status = "panic" THEN "aborted" ELSE "returned"
    /\ UNCHANGED <<digit64, u, ulast, n, arg>>

\* a call on &mut n that leaves its result in n (or panics)
IntAssign(rec) ==
    /\ last' = rec
    /\ pc' = IF rec.status = "panic" THEN "aborted" ELSE "returned"
    /\ n' = IF rec.status = "panic" THEN n ELSE rec.q
    /\ UNCHANGED <<digit64, u, ulast, arg>>

\* a + b
Add ==
    /\ pc = "idle"
    /\ \E form \in Forms, b \in IntInputs :
        IntCall(One("add", form, "", 0, b, bigint_add(form, n, b)))

\* a += b
AddAssign ==
    /\ pc = "idle"
    /\ \E b \in IntInputs :
        IntAssign(One("add_assign", "val_ref", "", 0, b, BigInt_add_assign(n, b)))

\* a + k and a += k, k a primitive
AddPrim ==
    /\ pc = "idle"
    /\ \E ty \in PrimTypes : \E k \in PrimVals(ty) :
        IntCall(One("add_prim", "", ty, k, ZERO, add_prim(n, ty, k)))

AddAssignPrim ==
    /\ pc = "idle"
    /\ \E ty \in PrimTypes : \E k \in PrimVals(ty) :
        IntAssign(One("add_assign_prim", "", ty, k, ZERO, add_prim(n, ty, k)))

\* a * b
Mul ==
    /\ pc = "idle"
    /\ \E b \in IntInputs :
        IntCall(Call("mul", "", "", 0, b, "ok", BigInt_mul(n, b), ZERO))

\* a *= b
MulAssign ==
    /\ pc = "idle"
    /\ \E b \in IntInputs :
        IntAssign(Call("mul_assign", "", "", 0, b, "ok", mul_assign(n, b), ZERO))

\* a * k and a *= k, k a primitive
MulPrim ==
    /\ pc = "idle"
    /\ \E ty \in PrimTypes : \E k \in PrimVals(ty) :
        IntCall(Call("mul_prim", "", ty, k, ZERO, "ok", mul_prim(n, ty, k), ZERO))

MulAssignPrim ==
    /\ pc = "idle"
    /\ \E ty \in PrimTypes : \E k \in PrimVals(ty) :
        IntAssign(Call("mul_assign_prim", "", ty, k, ZERO, "ok",
                       mul_assign_prim(n, ty, k), ZERO))

\* a / b and a /= b
Div ==
    /\ pc = "idle"
    /\ \E b \in IntInputs :
        IntCall(One("div", "", "", 0, b, BigInt_div(n, b)))

DivAssign ==
    /\ pc = "idle"
    /\ \E b \in IntInputs :
        IntAssign(One("div_assign", "", "", 0, b, BigInt_div(n, b)))

\* a / k, a /= k and k / a, k a primitive
DivPrim ==
    /\ pc = "idle"
    /\ \E ty \in PrimTypes : \E k \in PrimVals(ty) :
        IntCall(One("div_prim", "", ty, k, ZERO, div_prim(n, ty, k)))

DivAssignPrim ==
    /\ pc = "idle"
    /\ \E ty \in PrimTypes : \E k \in PrimVals(ty) :
        IntAssign(One("div_assign_prim", "", ty, k, ZERO, div_assign_prim(n, ty, k)))

PrimDiv ==
    /\ pc = "idle"
    /\ \E ty \in PrimTypes : \E k \in PrimVals(ty) :
        IntCall(One("prim_div", "", ty, k, ZERO, prim_div(ty, k, n)))

\* a % b and a %= b
Rem ==
    /\ pc = "idle"
    /\ \E b \in IntInputs :
        IntCall(One("rem", "", "", 0, b, BigInt_rem(n, b)))

RemAssign ==
    /\ pc = "idle"
    /\ \E b \in IntInputs :
        IntAssign(One("rem_assign", "", "", 0, b, BigInt_rem(n, b)))

\* a % k, a %= k and k % a, k a primitive
RemPrim ==
    /\ pc = "idle"
    /\ \E ty \in PrimTypes : \E k \in PrimVals(ty) :
        IntCall(One("rem_prim", "", ty, k, ZERO, rem_prim(n, ty, k)))

RemAssignPrim ==
    /\ pc = "idle"
    /\ \E ty \in PrimTypes : \E k \in PrimVals(ty) :
        IntAssign(One("rem_assign_prim", "", ty, k, ZERO, rem_assign_prim(n, ty, k)))

PrimRem ==
    /\ pc = "idle"
    /\ \E ty \in PrimTypes : \E k \in PrimVals(ty) :
        IntCall(One("prim_rem", "", ty, k, ZERO, prim_rem(ty, k, n)))

\* a.div_euclid(v), a.rem_euclid(v), a.div_rem_euclid(v)
DivEuclid ==
    /\ pc = "idle"
    /\ \E v \in IntInputs :
        IntCall(One("div_euclid", "", "", 0, v, div_euclid(n, v)))

RemEuclid ==
    /\ pc = "idle"
    /\ \E v \in IntInputs :
        IntCall(One("rem_euclid", "", "", 0, v, rem_euclid(n, v)))

DivRemEuclid ==
    /\ pc = "idle"
    /\ \E v \in IntInputs :
        IntCall(Pair("div_rem_euclid", v, div_rem_euclid(n, v)))

\* the checked forms
CheckedDiv ==
    /\ pc = "idle"
    /\ \E v \in IntInputs :
        IntCall(Opt("checked_div", v, checked_div(n, v)))

CheckedDivEuclid ==
    /\ pc = "idle"
    /\ \E v \in IntInputs :
        IntCall(Opt("checked_div_euclid", v, checked_div_euclid(n, v)))

CheckedRemEuclid ==
    /\ pc = "idle"
    /\ \E v \in IntInputs :
        IntCall(Opt("checked_rem_euclid", v, checked_rem_euclid(n, v)))

CheckedDivRemEuclid ==
    /\ pc = "idle"
    /\ \E v \in IntInputs :
        IntCall(Opt("checked_div_rem_euclid", v, checked_div_rem_euclid(n, v)))

\* the operations that leave their result in the receiver
AssignOps ==
    {"add_assign", "add_assign_prim", "mul_assign", "mul_assign_prim",
     "div_assign", "div_assign_prim", "rem_assign", "rem_assign_prim"}

\* the operations that return one BigInt
ValueOps ==
    {"add", "add_prim", "mul", "mul_prim", "div", "div_prim", "prim_div",
     "rem", "rem_prim", "prim_rem", "div_euclid", "rem_euclid"}

\* the caller goes on with the value the call produced, while that value is
\* within the input bounds
Resume ==
    /\ pc = "returned"
    /\ last.op \in AssignOps \cup ValueOps
    /\ last.q \in IntInputs
    /\ n' = last.q
    /\ pc' = "idle"
    /\ last' = NoCall
    /\ UNCHANGED <<digit64, u, ulast, arg>>

IntInit ==
    /\ digit64 \in BOOLEAN
    /\ pc = "idle"
    /\ n \in IntInputs
    /\ last = NoCall
    /\ u = <<>>
    /\ ulast = NoUCall
    /\ arg = NoArg

IntNext ==
    \/ Add \/ AddAssign \/ AddPrim \/ AddAssignPrim
    \/ Mul \/ MulAssign \/ MulPrim \/ MulAssignPrim
    \/ Div \/ DivAssign \/ DivPrim \/ DivAssignPrim \/ PrimDiv
    \/ Rem \/ RemAssign \/ RemPrim \/ RemAssignPrim \/ PrimRem
    \/ DivEuclid \/ RemEuclid \/ DivRemEuclid
    \/ CheckedDiv \/ CheckedDivEuclid \/ CheckedRemEuclid \/ CheckedDivRemEuclid
    \/ Resume

\* the BigInt operations
SpecInt == IntInit /\ [][IntNext]_vars

(***************************************************************************)
(* The BigUint operations on u.                                            *)
(***************************************************************************)
\* the record of a BigUint call on u
UCall(op, form, ty, k, b, status, out) ==
    [op |-> op, form |-> form, ty |-> ty, k |-> k, a |-> u, b |-> b,
     status |-> status, out |-> out]

\* the record of a call that cannot fail, and of one that panics on underflow
Sum(op, form, ty, k, b, out) == UCall(op, form, ty, k, b, "ok", out)
Diff(op, form, ty, k, b, d) == UCall(op, form, ty, k, b, StatusOf(d), d.a)

\* the record of a call that returns an Option<BigUint>
UOpt(op, b, o) == UCall(op, "", "", 0, b, o.status, o.a)

\* a call that leaves u alone and returns (or panics)
UintCall(rec) ==
    /\ ulast' = rec
    /\ pc' = IF rec.status = "panic" THEN "aborted" ELSE "returned"
    /\ UNCHANGED <<digit64, u, n, last, arg>>

\* a call on &mut u: the digits it leaves in u, also when it panics
UintAssign(rec) ==
    /\ ulast' = rec
    /\ pc' = IF rec.status = "panic" THEN "aborted" ELSE "returned"
    /\ u' = rec.out
    /\ UNCHANGED <<digit64, n, last, arg>>

UnsignedVals(ty) == {v \in PrimVals(ty) : v >= 0}

\* a + b
UAdd ==
    /\ pc = "idle"
    /\ \E form \in Forms, b \in UintInputs :
        UintCall(Sum("add", form, "", 0, b, BigUint_add(form, u, b)))

\* a += &b
UAddAssign ==
    /\ pc = "idle"
    /\ \E b \in UintInputs :
        UintAssign(Sum("add_assign", "", "", 0, b, BigUint_add_assign(u, b)))

\* a + k and k + a, k a u32, u64 or u128
UAddScalar ==
    /\ pc = "idle"
    /\ \E ty \in UnsignedTypes : \E k \in UnsignedVals(ty) :
        UintCall(Sum("add_scalar", "", ty, k, <<>>, add_assign_scalar(u, ty, k)))

\* a += k
UAddAssignScalar ==
    /\ pc = "idle"
    /\ \E ty \in UnsignedTypes : \E k \in UnsignedVals(ty) :
        UintAssign(Sum("add_assign_scalar", "", ty, k, <<>>,
                       add_assign_scalar(u, ty, k)))

\* a - b
USub ==
    /\ pc = "idle"
    /\ \E form \in Forms, b \in UintInputs :
        UintCall(Diff("sub", form, "", 0, b, BigUint_sub(form, u, b)))

\* a -= &b
USubAssign ==
    /\ pc = "idle"
    /\ \E b \in UintInputs :
        UintAssign(Diff("sub_assign", "", "", 0, b, BigUint_sub_assign(u, b)))

\* a - k
USubScalar ==
    /\ pc = "idle"
    /\ \E ty \in UnsignedTypes : \E k \in UnsignedVals(ty) :
        UintCall(Diff("sub_scalar", "", ty, k, <<>>, sub_assign_scalar(u, ty, k)))

\* a -= k
USubAssignScalar ==
    /\ pc = "idle"
    /\ \E ty \in UnsignedTypes : \E k \in UnsignedVals(ty) :
        UintAssign(Diff("sub_assign_scalar", "", ty, k, <<>>,
                        sub_assign_scalar(u, ty, k)))

\* k - a
UScalarSub ==
    /\ pc = "idle"
    /\ \E ty \in UnsignedTypes : \E k \in UnsignedVals(ty) :
        UintCall(Diff("scalar_sub", "", ty, k, <<>>, scalar_sub(ty, k, u)))

\* a.checked_sub(&b)
UCheckedSub ==
    /\ pc = "idle"
    /\ \E b \in UintInputs : UintCall(UOpt("checked_sub", b, checked_sub(u, b)))

\* the caller goes on with the value the call produced, while that value is
\* within the input bounds
UResume ==
    /\ pc = "returned"
    /\ ulast.op # "none"
    /\ ulast.status # "none"
    /\ ulast.out \in UintInputs
    /\ u' = ulast.out
    /\ pc' = "idle"
    /\ ulast' = NoUCall
    /\ UNCHANGED <<digit64, n, last, arg>>

UintInit ==
    /\ digit64 \in BOOLEAN
    /\ pc = "idle"
    /\ u \in UintInputs
    /\ ulast = NoUCall
    /\ n = ZERO
    /\ last = NoCall
    /\ arg = NoArg

UintNext ==
    \/ UAdd \/ UAddAssign \/ UAddScalar \/ UAddAssignScalar
    \/ USub \/ USubAssign \/ USubScalar \/ USubAssignScalar \/ UScalarSub
    \/ UCheckedSub
    \/ UResume

\* the BigUint operations
SpecUint == UintInit /\ [][UintNext]_vars

(***************************************************************************)
(* The conversions: the caller holds a BigUint to export, or bytes, or a   *)
(* text to import, and a radix.                                            *)
(***************************************************************************)
\* the ASCII digit of value d, in lower and in upper case
char_of(d) == IF d < 10 THEN d + Ch0 ELSE d + Cha - 10
upper_of(d) == IF d < 10 THEN d + Ch0 ELSE d + ChA - 10

\* magnitudes of BigLen digits and of one more, long enough for the division
\* by a larger base: the boundary patterns, and a run of values with varied
\* low digits
LongSamples ==
    LongMagsTo(BigLen - 1, BigLen + 1, DigitMax)
        \cup {BigUint_from(Base ^ (BigLen - 1) + v * (Base + 2)) : v \in 0..MaxBuf * 10}

\* the magnitudes to export: the boundary inputs, every value to MaxValue,
\* the values around the primitive maxima and the long samples
ConvMags ==
    UintInputs \cup {BigUint_from(v) : v \in (0..MaxValue) \cup Boundary}
        \cup LongSamples

Radices == 2..MaxRadix

\* sequences over S of m elements
SeqsOver(S, m) == [1..m -> S]

\* bytes around the digits of radix r, and characters around its digits
\* ('!' is no digit of any radix; '9' is the spec's invalid digit of radix 8)
ByteSamples(r) == {0, 1, r - 1, r, MaxRadix - 1} \cap 0..(MaxRadix - 1)
TextSamples(r) ==
    {ChPlus, ChUnderscore, 33, Ch0, Ch0 + 1, char_of(r - 1), upper_of(r - 1)}
        \cup (IF r < MaxTextRadix THEN {char_of(r)} ELSE {})
        \cup (IF r = 8 THEN {Ch9} ELSE {})

\* what the caller holds for a conversion
Arg(kind, buf, radix) == [kind |-> kind, buf |-> buf, radix |-> radix]

\* the record of a conversion call in the radix the caller holds
Conv(op, form, b, status, out) == UCall(op, form, "", arg.radix, b, status, out)
Export(op, wide, d) ==
    Conv(op, IF wide THEN "wide" ELSE "half", <<>>, StatusOf(d), d.a)
Import(op, o) == Conv(op, "", arg.buf, o.status, o.a)

\* u.to_radix_le(radix)
ToRadixLe ==
    /\ pc = "idle" /\ arg.kind = "value"
    /\ \E wide \in BOOLEAN :
        UintCall(Export("to_radix_le", wide,
                        IF to_radix_le_returns(u, arg.radix, wide)
                        THEN [a |-> to_radix_le(u, arg.radix, wide), ok |-> TRUE]
                        ELSE [a |-> <<>>, ok |-> FALSE]))

\* to_str_radix_reversed(&u, radix)
ToStrRadixReversed ==
    /\ pc = "idle" /\ arg.kind = "value"
    /\ \E wide \in BOOLEAN :
        UintCall(Export("to_str_radix_reversed", wide,
                        to_str_radix_reversed(u, arg.radix, wide)))

\* BigUint::from_radix_le(buf, radix)
FromRadixLe ==
    /\ pc = "idle" /\ arg.kind = "bytes"
    /\ UintCall(Import("from_radix_le", from_radix_le(arg.buf, arg.radix)))

\* BigUint::from_radix_be(buf, radix)
FromRadixBe ==
    /\ pc = "idle" /\ arg.kind = "bytes"
    /\ UintCall(Import("from_radix_be", from_radix_be(arg.buf, arg.radix)))

\* BigUint::from_str_radix(s, radix)
FromStrRadix ==
    /\ pc = "idle" /\ arg.kind = "text"
    /\ UintCall(Import("from_str_radix", from_str_radix(arg.buf, arg.radix)))

\* the primitive types BigUint narrows to by its own loops
NarrowTypes == {"u64", "u128", "i64", "i128"}

\* u.to_u64(), u.to_u128(), u.to_i64(), u.to_i128()
ToPrimitive ==
    /\ pc = "idle" /\ arg.kind = "value"
    /\ \E ty \in NarrowTypes :
        LET rec(o) == UCall("to_prim", "", ty, o.v, <<>>,
                            IF o.some THEN "some" ELSE "none", <<>>)
        IN  UintCall(rec(to_prim(u, ty)))

\* u64::try_from(u) and the like
TryFrom ==
    /\ pc = "idle" /\ arg.kind = "value"
    /\ \E ty \in NarrowTypes :
        LET rec(r) == UCall("try_from", "", ty, r.v, <<>>,
                            IF r.ok THEN "ok" ELSE "err", r.err)
        IN  UintCall(rec(try_from(u, ty)))

\* high_bits_to_u64(&u), the mantissa window of to_f32 / to_f64
HighBitsToU64 ==
    /\ pc = "idle" /\ arg.kind = "value"
    /\ UintCall(UCall("high_bits_to_u64", "", "u64", high_bits_to_u64(u),
                      <<>>, "ok", <<>>))

\* the f64 inputs: NaN, the infinities, both zeros, and every mantissa with
\* every exponent from fractions up to MaxExp, in both signs
Floats ==
    {F64("nan", 1, 0, 0), F64("inf", 1, 0, 0), F64("neg_inf", 0 - 1, 0, 0)}
        \cup {F64("finite", s, 0, MinExp) : s \in {1, 0 - 1}}
        \cup {F64("finite", s, m, e) :
                s \in {1, 0 - 1}, m \in 2 ^ (MantBits - 1)..(2 ^ MantBits - 1),
                e \in MinExp..MaxExp}

\* BigUint::from_f64(x)
FromF64 ==
    /\ pc = "idle" /\ arg.kind = "number"
    /\ \E x \in Floats :
        LET rec(o) == UCall("from_f64", x.kind, "f64", 0,
                            <<x.sign, x.mant, x.exp>>, o.status, o.a)
        IN  UintCall(rec(from_f64(x)))

\* BigUint::from_i64(x), BigUint::from_i128(x)
FromInt ==
    /\ pc = "idle" /\ arg.kind = "number"
    /\ \E ty \in {"i64", "i128"} : \E x \in PrimVals(ty) :
        LET rec(o) == UCall("from_int", "", ty, x, <<>>, o.status, o.a)
        IN  UintCall(rec(from_int(x)))

ConvInit ==
    /\ digit64 \in BOOLEAN
    /\ pc = "idle"
    /\ ulast = NoUCall
    /\ n = ZERO
    /\ last = NoCall
    /\ \/ u = <<>> /\ arg = Arg("number", <<>>, 0)
       \/ \E r \in Radices :
           \/ u \in ConvMags /\ arg = Arg("value", <<>>, r)
           \/ /\ u = <<>>
              /\ \E m \in 0..MaxBuf : \E b \in SeqsOver(ByteSamples(r), m) :
                   arg = Arg("bytes", b, r)
           \/ /\ u = <<>>
              /\ \E m \in 0..MaxText : \E s \in SeqsOver(TextSamples(r), m) :
                   arg = Arg("text", s, r)

ConvNext ==
    \/ ToRadixLe \/ ToStrRadixReversed
    \/ FromRadixLe \/ FromRadixBe \/ FromStrRadix
    \/ ToPrimitive \/ TryFrom
    \/ HighBitsToU64
    \/ FromF64 \/ FromInt

\* the conversions of BigUint
SpecConv == ConvInit /\ [][ConvNext]_vars

(***************************************************************************)
(* The Digit Vector Core called on raw slices: u is the slice a the call   *)
(* writes to (its digits need not be normalized); the other operand, the   *)
(* carry and the build are chosen per call.                                *)
(***************************************************************************)
\* the digits slices are drawn over
SliceDigits == {0, 1, DigitMax}

\* the slices: every sequence of up to MaxLen + 2 boundary digits, and every
\* single digit
Slices ==
    UNION {SeqsOver(SliceDigits, k) : k \in 0..(MaxLen + 2)}
        \cup {<<d>> : d \in 0..DigitMax}

\* the record of a call on the slice u with operand b
SliceCall(op, form, k, b, ok, out) ==
    UCall(op, form, "", k, b, IF ok THEN "ok" ELSE "panic", out)

\* adc(carry, *a, b, a) on the one digit of u, by the add-with-carry
\* instruction or by the portable fallback
SAdc ==
    /\ pc = "idle" /\ Len(u) = 1
    /\ \E arch \in {"x86", "portable"}, carry \in {0, 1}, b \in 0..DigitMax :
        LET rec(r) == SliceCall("adc", arch, r.carry, <<b, carry>>, TRUE, <<r.out>>)
        IN  UintAssign(rec(IF arch = "x86" THEN adc_x86(carry, u[1], b)
                           ELSE adc(carry, u[1], b)))

\* sbb(borrow, *a, b, a) on the one digit of u
SSbb ==
    /\ pc = "idle" /\ Len(u) = 1
    /\ \E arch \in {"x86", "portable"}, borrow \in {0, 1}, b \in 0..DigitMax :
        LET rec(r) == SliceCall("sbb", arch, r.borrow, <<b, borrow>>, TRUE, <<r.out>>)
        IN  UintAssign(rec(IF arch = "x86" THEN sbb_x86(borrow, u[1], b)
                           ELSE sbb(borrow, u[1], b)))

\* __add2(&mut u, b); the caller ensures that u is at least as long as b
SAdd2Carry ==
    /\ pc = "idle"
    /\ \E b \in Slices :
        /\ Len(b) <= Len(u)
        /\ LET rec(r) == SliceCall("__add2", "", r.carry, b, TRUE, r.a)
           IN  UintAssign(rec(__add2(u, b)))

\* add2(&mut u, b), with debug assertions on or off
SAdd2 ==
    /\ pc = "idle"
    /\ \E b \in Slices, debug_assertions \in BOOLEAN :
        /\ Len(b) <= Len(u)
        /\ LET rec(r) == SliceCall("add2", IF debug_assertions THEN "debug"
                                           ELSE "release", 0, b, r.ok, r.a)
           IN  UintAssign(rec(add2_asserting(u, b, debug_assertions)))

\* sub2(&mut u, b), slices of any lengths
SSub2 ==
    /\ pc = "idle"
    /\ \E b \in Slices :
        LET rec(r) == SliceCall("sub2", "", 0, b, r.ok, r.a)
        IN  UintAssign(rec(sub2(u, b)))

SliceInit ==
    /\ digit64 \in BOOLEAN
    /\ pc = "idle"
    /\ u \in Slices
    /\ ulast = NoUCall
    /\ n = ZERO
    /\ last = NoCall
    /\ arg = NoArg

SliceNext == SAdc \/ SSbb \/ SAdd2Carry \/ SAdd2 \/ SSub2

\* the digit-vector functions on raw slices
SpecSlice == SliceInit /\ [][SliceNext]_vars

(***************************************************************************)
(* The radix base tables.  A radix is a real u8 here, 3..=255, and a digit *)
(* has TableBits32 or TableBits64 bits, so that, as in the real builds,    *)
(* every radix is within half a digit.                                     *)
(***************************************************************************)
TableBits == IF digit64 THEN TableBits64 ELSE TableBits32
\* big_digit::MAX and big_digit::HALF of the digits of the tables
TableMax == 2 ^ TableBits - 1
TableHalf == 2 ^ (TableBits \div 2) - 1
\* the length of BASES less one: [(BigDigit, usize); 257]
RadixEnd == 256

\* get_radix_base / get_half_radix_base: the debug_assert!s on the radix,
\* then BASES[radix as usize]
table_lookup(max, radix, debug_assertions) ==
    IF debug_assertions /\ (is_power_of_two(radix) \/ ~(3 <= radix /\ radix < RadixEnd))
    THEN [ok |-> FALSE, e |-> [base |-> 0, power |-> 0]]
    ELSE [ok |-> TRUE, e |-> generate_radix_bases(max, TableMax, RadixEnd)[radix]]

\* the record of a table lookup with the radix the caller holds
Lookup(op, debug_assertions, r) ==
    UCall(op, IF debug_assertions THEN "debug" ELSE "release", "", arg.radix,
          <<>>, IF r.ok THEN "ok" ELSE "panic", <<r.e.base, r.e.power>>)

\* get_radix_base(radix)
GetRadixBase ==
    /\ pc = "idle" /\ arg.kind = "radix"
    /\ \E debug_assertions \in BOOLEAN :
        UintCall(Lookup("get_radix_base", debug_assertions,
                        table_lookup(TableMax, arg.radix, debug_assertions)))

\* get_half_radix_base(radix)
GetHalfRadixBase ==
    /\ pc = "idle" /\ arg.kind = "radix"
    /\ \E debug_assertions \in BOOLEAN :
        UintCall(Lookup("get_half_radix_base", debug_assertions,
                        table_lookup(TableHalf, arg.radix, debug_assertions)))

BasesInit ==
    /\ digit64 \in BOOLEAN
    /\ pc = "idle"
    /\ u = <<>>
    /\ ulast = NoUCall
    /\ n = ZERO
    /\ last = NoCall
    /\ \E r \in 0..RadixEnd : arg = Arg("radix", <<>>, r)

BasesNext == GetRadixBase \/ GetHalfRadixBase

\* the lookups in the radix base tables
SpecBases == BasesInit /\ [][BasesNext]_vars

(***************************************************************************)
(* Properties.                                                             *)
(***************************************************************************)
Abs(x) == IF x < 0 THEN 0 - x ELSE x
Sgn(x) == IF x < 0 THEN 0 - 1 ELSE IF x > 0 THEN 1 ELSE 0
Max(x, y) == IF x >= y THEN x ELSE y

\* NoSign exactly when the magnitude is zero
SignInv(x) == (x.sign = "NoSign") <=> (Value(x.data) = 0)

\* no most-significant zero digit; zero is the empty vector
Normalized(a) == a = <<>> \/ a[Len(a)] # 0

\* the operators +, *, /, % and their assignment forms
OperatorOps ==
    {"add", "add_assign", "add_prim", "add_assign_prim",
     "mul", "mul_assign", "mul_prim", "mul_assign_prim",
     "div", "div_assign", "div_prim", "div_assign_prim", "prim_div",
     "rem", "rem_assign", "rem_prim", "rem_assign_prim", "prim_rem"}

\* C1: after any sequence of the BigInt operators +, *, /, % and their
\* assignment forms (BigInt or primitive operands, either side, the signed
\* forms that flip the sign included), zero divisors excluded, the receiver
\* and every result have sign NoSign if and only if their magnitude is zero.
C1_SignMagnitude ==
    /\ SignInv(n)
    /\ (last.op \in OperatorOps /\ last.status = "ok") => SignInv(last.q)

\* C1 witness: a /= k with k negative and |a| < |k|: the sign is flipped and
\* the quotient is zero
C1_FlippedQuotientZero ==
    /\ last.op = "div_assign_prim" /\ last.ty \in SignedTypes /\ last.k < 0
    /\ last.a.sign = "Plus" /\ last.status = "ok"
    /\ last.q = ZERO /\ n = ZERO

UintAddOps == {"add", "add_assign", "add_scalar", "add_assign_scalar"}
UintSubOps == {"sub", "sub_assign", "sub_scalar", "sub_assign_scalar", "scalar_sub"}

\* C2: after any sequence of BigUint additions and non-underflowing
\* subtractions (every owned/borrowed form, u32/u64/u128 scalars on either
\* side, both digit widths) the receiver and every result are normalized: no
\* most-significant zero digit, and zero is the empty vector.
C2_Normalized ==
    /\ pc # "aborted" => Normalized(u)
    /\ (ulast.op \in UintAddOps \cup UintSubOps /\ ulast.status = "ok") =>
            /\ Normalized(ulast.out)
            /\ Value(ulast.out) = 0 => ulast.out = <<>>

\* C2 witness: &a - b cancels a's top digit and leaves a shorter nonzero vector
C2_BorrowedSubShrinks ==
    /\ ulast.op = "sub" /\ ulast.form = "ref_val" /\ ulast.status = "ok"
    /\ Len(ulast.b) < Len(ulast.a)
    /\ Len(ulast.out) < Len(ulast.a) /\ ulast.out # <<>>

\* q and r are the Euclidean quotient and remainder of a by v
EuclidOf(a, v, q, r) ==
    /\ q * v + r = a
    /\ 0 <= r /\ r < Abs(v)

EuclidOps == {"div_euclid", "rem_euclid", "div_rem_euclid"}

\* C3: for every a and nonzero v, div_euclid(a, v) * v + rem_euclid(a, v) = a
\* and 0 <= rem_euclid(a, v) < |v|; div_rem_euclid returns exactly that pair;
\* (-7).div_euclid(2) = -4 with remainder 1.
C3_EuclidIdentity ==
    /\ (last.op \in EuclidOps /\ last.b # ZERO) => last.status = "ok"
    /\ (last.op = "div_euclid" /\ last.status = "ok") =>
            EuclidOf(IntValue(last.a), IntValue(last.b), IntValue(last.q),
                     IntValue(rem_euclid(last.a, last.b).v))
    /\ (last.op = "rem_euclid" /\ last.status = "ok") =>
            EuclidOf(IntValue(last.a), IntValue(last.b),
                     IntValue(div_euclid(last.a, last.b).v), IntValue(last.q))
    /\ (last.op = "div_rem_euclid" /\ last.status = "ok") =>
            /\ EuclidOf(IntValue(last.a), IntValue(last.b),
                        IntValue(last.q), IntValue(last.r))
            /\ div_euclid(last.a, last.b) = Returned(last.q)
            /\ rem_euclid(last.a, last.b) = Returned(last.r)
            /\ (IntValue(last.a) = 0 - 7 /\ IntValue(last.b) = 2) =>
                    IntValue(last.q) = 0 - 4 /\ IntValue(last.r) = 1

\* C3 witness: (-7).div_rem_euclid(2) has returned
C3_MinusSevenByTwo ==
    /\ last.op = "div_rem_euclid" /\ last.status = "ok"
    /\ IntValue(last.a) = 0 - 7 /\ IntValue(last.b) = 2

\* C4: checked_div_rem_euclid(a, v) returns None when v is zero and
\* Some(div_rem_euclid(a, v)) when v is nonzero.
C4_CheckedDivRemEuclid ==
    last.op = "checked_div_rem_euclid" =>
        IF last.b = ZERO THEN last.status = "none"
        ELSE /\ last.status = "some"
             /\ EuclidOf(IntValue(last.a), IntValue(last.b),
                         IntValue(last.q), IntValue(last.r))

\* C4 witness: checked_div_rem_euclid on a zero divisor has panicked
C4_ZeroDivisorPanics ==
    /\ last.op = "checked_div_rem_euclid" /\ last.b = ZERO
    /\ last.status = "panic" /\ pc = "aborted"

\* the quotient rounded toward zero
TruncDiv(a, b) == Sgn(a) * Sgn(b) * (Abs(a) \div Abs(b))

\* C5: checked_div, checked_div_euclid and checked_rem_euclid return None on
\* a zero v, and on a nonzero v Some(r), r the result of a / v,
\* a.div_euclid(v), a.rem_euclid(v).
C5_CheckedForms ==
    /\ (last.op \in {"checked_div", "checked_div_euclid", "checked_rem_euclid"}) =>
            IF last.b = ZERO THEN last.status = "none" ELSE last.status = "some"
    /\ (last.op = "checked_div" /\ last.b # ZERO) =>
            /\ BigInt_div(last.a, last.b) = Returned(last.q)
            /\ IntValue(last.q) = TruncDiv(IntValue(last.a), IntValue(last.b))
    /\ (last.op = "checked_div_euclid" /\ last.b # ZERO) =>
            /\ div_euclid(last.a, last.b) = Returned(last.q)
            /\ EuclidOf(IntValue(last.a), IntValue(last.b), IntValue(last.q),
                        IntValue(last.a) % Abs(IntValue(last.b)))
    /\ (last.op = "checked_rem_euclid" /\ last.b # ZERO) =>
            /\ rem_euclid(last.a, last.b) = Returned(last.q)
            /\ IntValue(last.q) = IntValue(last.a) % Abs(IntValue(last.b))

\* C5 witness: checked_div of a nonzero a by zero has returned None
C5_NoneOnZeroDivisor ==
    /\ last.op = "checked_div" /\ last.a # ZERO /\ last.b = ZERO
    /\ last.status = "none" /\ pc = "returned"

\* C6 as stated: a.rem_euclid(v) is non-negative when v is positive and
\* non-positive when v is negative.
C6_RemainderFollowsDivisor ==
    (last.op = "rem_euclid" /\ last.b # ZERO /\ last.status = "ok") =>
        /\ is_positive(last.b) => IntValue(last.q) >= 0
        /\ is_negative(last.b) => IntValue(last.q) <= 0

\* C6 as amended: for every a and nonzero v, positive or negative,
\* a.rem_euclid(v) is non-negative (and so is the remainder div_rem_euclid
\* returns).
C6_RemainderNonNegative ==
    /\ (last.op = "rem_euclid" /\ last.b # ZERO) =>
            last.status = "ok" /\ IntValue(last.q) >= 0
    /\ (last.op = "div_rem_euclid" /\ last.b # ZERO) =>
            last.status = "ok" /\ IntValue(last.r) >= 0

\* C6 witness: a negative a and a negative v that does not divide it: the
\* remainder is adjusted by r - v and is positive
C6_NegativeDivisorPositiveRemainder ==
    /\ last.op = "rem_euclid" /\ last.status = "ok"
    /\ is_negative(last.a) /\ is_negative(last.b)
    /\ IntValue(last.q) > 0

\* q and r are the quotient and remainder of a by b, rounded toward zero
TruncOf(a, b, q, r) ==
    /\ q * b + r = a
    /\ Abs(r) < Abs(b)
    /\ r = 0 \/ Sgn(r) = Sgn(a)
    /\ q = 0 \/ Sgn(q) = Sgn(a) * Sgn(b)

\* C7: for every BigInt a and nonzero primitive b (u32 .. i128, the signed
\* minimum included) q = a / b and r = a % b satisfy q * b + r = a, |r| < |b|,
\* r is zero or has the sign of a, q is zero or has the sign sign(a) * sign(b);
\* the same with the primitive on the left; a /= b and a %= b leave a equal to
\* q and r; (-7) / 2 = -3 and (-7) % 2 = -1.
C7_TruncatingPrimitive ==
    /\ (last.op \in {"div_prim", "div_assign_prim", "rem_prim", "rem_assign_prim"}
        /\ last.k # 0) => last.status = "ok"
    /\ (last.op \in {"prim_div", "prim_rem"} /\ last.a # ZERO) => last.status = "ok"
    /\ (last.op = "div_prim" /\ last.k # 0) =>
            /\ TruncOf(IntValue(last.a), last.k, IntValue(last.q),
                       IntValue(rem_prim(last.a, last.ty, last.k).v))
            /\ (IntValue(last.a) = 0 - 7 /\ last.k = 2) => IntValue(last.q) = 0 - 3
    /\ (last.op = "rem_prim" /\ last.k # 0) =>
            /\ TruncOf(IntValue(last.a), last.k,
                       IntValue(div_prim(last.a, last.ty, last.k).v),
                       IntValue(last.q))
            /\ (IntValue(last.a) = 0 - 7 /\ last.k = 2) => IntValue(last.q) = 0 - 1
    /\ (last.op = "div_assign_prim" /\ last.k # 0) =>
            /\ n = last.q
            /\ div_prim(last.a, last.ty, last.k) = Returned(last.q)
    /\ (last.op = "rem_assign_prim" /\ last.k # 0) =>
            /\ n = last.q
            /\ rem_prim(last.a, last.ty, last.k) = Returned(last.q)
    /\ (last.op = "prim_div" /\ last.a # ZERO) =>
            TruncOf(last.k, IntValue(last.a), IntValue(last.q),
                    IntValue(prim_rem(last.ty, last.k, last.a).v))
    /\ (last.op = "prim_rem" /\ last.a # ZERO) =>
            TruncOf(last.k, IntValue(last.a),
                    IntValue(prim_div(last.ty, last.k, last.a).v),
                    IntValue(last.q))

\* C7 witness: a negative a divided by the minimum of i32 with a nonzero
\* quotient
C7_DividedBySignedMinimum ==
    /\ last.op = "div_prim" /\ last.ty = "i32" /\ last.k = MinOf("i32")
    /\ is_negative(last.a) /\ last.status = "ok" /\ last.q # ZERO

\* the BigInt of an integer, by its sign and its magnitude's value
Denotes(x, v) ==
    /\ IntValue(x) = v
    /\ SignInv(x)
    /\ Normalized(x.data)

\* C8: a + b (every owned/borrowed form, primitive right operands, the signed
\* minimum included) has the value a + b: a zero operand returns the other,
\* equal signs add the magnitudes and keep the sign, opposite signs subtract
\* the smaller magnitude from the larger and take the sign of the larger,
\* equal magnitudes of opposite signs give the zero with NoSign; a + b = b + a
\* and a += b leaves a equal to a + b.
C8_SignedAddition ==
    /\ (last.op \in {"add", "add_assign", "add_prim", "add_assign_prim"}) =>
            last.status = "ok"
    /\ (last.op \in {"add", "add_assign"}) =>
            /\ Denotes(last.q, IntValue(last.a) + IntValue(last.b))
            /\ last.b = ZERO => last.q = last.a
            /\ last.a = ZERO => last.q = last.b
            /\ (last.a.sign = last.b.sign) =>
                    /\ last.q.sign = last.a.sign
                    /\ Value(last.q.data) = Value(last.a.data) + Value(last.b.data)
            /\ (last.a.sign # last.b.sign /\ last.a # ZERO /\ last.b # ZERO) =>
                    /\ Value(last.q.data) =
                            Abs(Value(last.a.data) - Value(last.b.data))
                    /\ Value(last.a.data) > Value(last.b.data) =>
                            last.q.sign = last.a.sign
                    /\ Value(last.a.data) < Value(last.b.data) =>
                            last.q.sign = last.b.sign
                    /\ Value(last.a.data) = Value(last.b.data) => last.q = ZERO
            /\ bigint_add(last.form, last.b, last.a) = Returned(last.q)
    /\ (last.op = "add_assign") =>
            /\ n = last.q
            /\ \A form \in Forms : bigint_add(form, last.a, last.b) = Returned(last.q)
    /\ (last.op \in {"add_prim", "add_assign_prim"}) =>
            Denotes(last.q, IntValue(last.a) + last.k)
    /\ (last.op = "add_assign_prim") => n = last.q

\* C8 witness: &a + b with a positive, b negative and larger: the difference
\* is taken in b's buffer and has b's sign
C8_OppositeSignsLargerRight ==
    /\ last.op = "add" /\ last.form = "ref_val" /\ last.status = "ok"
    /\ is_positive(last.a) /\ is_negative(last.b)
    /\ Value(last.a.data) < Value(last.b.data)
    /\ is_negative(last.q)

\* C9: Sign * Sign follows the table (Plus * Plus = Minus * Minus = Plus,
\* Plus * Minus = Minus * Plus = Minus, NoSign with anything = NoSign) and is
\* commutative and associative; a * b has magnitude |a| |b| and sign
\* sign(a) * sign(b); a *= b (b a BigInt or a primitive) leaves a equal to
\* a * b.
C9_SignedMultiplication ==
    /\ Sign_mul("Plus", "Plus") = "Plus" /\ Sign_mul("Minus", "Minus") = "Plus"
    /\ Sign_mul("Plus", "Minus") = "Minus" /\ Sign_mul("Minus", "Plus") = "Minus"
    /\ \A s \in Signs :
            Sign_mul("NoSign", s) = "NoSign" /\ Sign_mul(s, "NoSign") = "NoSign"
    /\ \A s, t \in Signs : Sign_mul(s, t) = Sign_mul(t, s)
    /\ \A s, t, w \in Signs :
            Sign_mul(Sign_mul(s, t), w) = Sign_mul(s, Sign_mul(t, w))
    /\ (last.op \in {"mul", "mul_assign"}) =>
            /\ Value(last.q.data) = Value(last.a.data) * Value(last.b.data)
            /\ last.q.sign = Sign_mul(last.a.sign, last.b.sign)
            /\ Denotes(last.q, IntValue(last.a) * IntValue(last.b))
    /\ (last.op = "mul_assign") =>
            n = last.q /\ BigInt_mul(last.a, last.b) = last.q
    /\ (last.op \in {"mul_prim", "mul_assign_prim"}) =>
            Denotes(last.q, IntValue(last.a) * last.k)
    /\ (last.op = "mul_assign_prim") =>
            n = last.q /\ mul_prim(last.a, last.ty, last.k) = last.q

\* C9 witness: a *= k with a and k negative: the product is positive
C9_NegativeTimesNegativeScalar ==
    /\ last.op = "mul_assign_prim" /\ last.ty \in SignedTypes /\ last.k < 0
    /\ is_negative(last.a) /\ is_positive(last.q) /\ n = last.q

\* C10: the digits of a + b represent value(a) + value(b); the result is as
\* long as the longer operand, and one digit longer exactly when a carry-out
\* remains ({0xFFFFFFFF} + {1} = {0, 1} with 32-bit digits); adding a u32, u64
\* or u128 through the direct digit path gives what adding
\* BigUint::from(scalar) gives, whatever the receiver's length.
C10_UnsignedAddition ==
    /\ (ulast.op \in UintAddOps) => ulast.status = "ok"
    /\ (ulast.op \in {"add", "add_assign"}) =>
            /\ Value(ulast.out) = Value(ulast.a) + Value(ulast.b)
            /\ Len(ulast.out) =
                    IF Value(ulast.a) + Value(ulast.b) >=
                            Base ^ Max(Len(ulast.a), Len(ulast.b))
                    THEN Max(Len(ulast.a), Len(ulast.b)) + 1
                    ELSE Max(Len(ulast.a), Len(ulast.b))
            /\ (~digit64 /\ ulast.a = <<DigitMax>> /\ ulast.b = <<1>>) =>
                    ulast.out = <<0, 1>>
    /\ (ulast.op = "add_assign") => u = ulast.out
    /\ (ulast.op \in {"add_scalar", "add_assign_scalar"}) =>
            /\ Value(ulast.out) = Value(ulast.a) + ulast.k
            /\ ulast.out = BigUint_add_assign(ulast.a, BigUint_from(ulast.k))
    /\ (ulast.op = "add_assign_scalar") => u = ulast.out

\* C10 witness: a u128 of more digits than the receiver, and a carry out of
\* the scalar's top digit
C10_ScalarLongerThanReceiver ==
    /\ ulast.op = "add_scalar" /\ ulast.ty = "u128"
    /\ ulast.a # <<>> /\ Len(ulast.a) < Len(BigUint_from(ulast.k))
    /\ Len(ulast.out) > Len(BigUint_from(ulast.k))

\* C11: for all BigUint a, b of any relative lengths, (a + b) - b is a, in
\* every operand form and without failure, and a + b is b + a.
C11_SubInvertsAdd ==
    (ulast.op \in {"add", "add_assign"}) =>
        /\ ulast.status = "ok"
        /\ \A form \in Forms :
                /\ BigUint_sub(form, ulast.out, ulast.b) =
                        [a |-> ulast.a, ok |-> TRUE]
                /\ BigUint_sub(form, ulast.out, ulast.a) =
                        [a |-> ulast.b, ok |-> TRUE]
                /\ BigUint_add(form, ulast.b, ulast.a) = ulast.out

\* C11 witness: a sum one digit longer than both operands, so that taking b
\* away again borrows through the top digit
C11_CarryThenBorrow ==
    /\ ulast.op = "add" /\ ulast.status = "ok"
    /\ ulast.a # <<>> /\ ulast.b # <<>> /\ Len(ulast.a) # Len(ulast.b)
    /\ Len(ulast.out) > Max(Len(ulast.a), Len(ulast.b))
    /\ BigUint_sub("val_ref", ulast.out, ulast.b).a = ulast.a

\* C12: a.checked_sub(&b) never fails: it is None exactly when a < b,
\* Some(canonical zero) when a = b, and Some of the normalized digits of
\* value(a) - value(b) when a > b; a is left as it was.
C12_CheckedSub ==
    (ulast.op = "checked_sub") =>
        /\ ulast.status \in {"none", "some"}
        /\ (ulast.status = "none") <=> (Value(ulast.a) < Value(ulast.b))
        /\ (Value(ulast.a) = Value(ulast.b)) => ulast.out = <<>>
        /\ (ulast.status = "some") =>
                /\ Value(ulast.out) = Value(ulast.a) - Value(ulast.b)
                /\ Normalized(ulast.out)
        /\ u = ulast.a

\* C12 witness: None decided below the top digit of two operands of equal
\* length
C12_NoneOnLowerDigit ==
    /\ ulast.op = "checked_sub" /\ ulast.status = "none"
    /\ Len(ulast.a) = Len(ulast.b) /\ Len(ulast.a) >= 2
    /\ ulast.a[Len(ulast.a)] = ulast.b[Len(ulast.b)]

\* C13: no partial mutation before failure: when a -= b (b a BigUint, u32,
\* u64 or u128) fails because b > a, the receiver a still holds its pre-call
\* digits at the moment of failure.
C13_NoPartialMutation ==
    (ulast.op \in {"sub_assign", "sub_assign_scalar"} /\ ulast.status = "panic") =>
        u = ulast.a

\* C13 witness: a -= &b has panicked in sub2's assert! with the receiver
\* overwritten by the wrapped differences, here all zero digits
C13_ReceiverOverwrittenAtPanic ==
    /\ ulast.op = "sub_assign" /\ ulast.status = "panic" /\ pc = "aborted"
    /\ Value(ulast.a) < Value(ulast.b)
    /\ u # ulast.a /\ ~Normalized(u)

\* the three conversion paths of a radix
BitwisePath(r) == is_power_of_two(r) /\ DigitBits % ilog2(r) = 0
InexactPath(r) == is_power_of_two(r) /\ DigitBits % ilog2(r) # 0
RadixPath(r) == ~is_power_of_two(r)

\* C14: for every BigUint x and every byte radix r,
\* from_radix_le(to_radix_le(x, r), r) is Some(x), and from_radix_be of the
\* reversed digits is Some(x) too, on each of the three conversion paths.
C14_ByteRoundTrip ==
    (ulast.op = "to_radix_le") =>
        /\ ulast.status = "ok"
        /\ from_radix_le(ulast.out, ulast.k) = [status |-> "some", a |-> ulast.a]
        /\ from_radix_be(reverse(ulast.out), ulast.k) =
                [status |-> "some", a |-> ulast.a]

\* C14 witness: a value of more than one digit exported digit for digit in a
\* power-of-two radix whose bit width does not divide the digit width
C14_InexactPathTaken ==
    /\ ulast.op = "to_radix_le" /\ InexactPath(ulast.k)
    /\ Len(ulast.a) >= 2 /\ Len(ulast.out) >= 3
    /\ from_radix_le(ulast.out, ulast.k).a = ulast.a

\* C15: for every BigUint x and every text radix r, parsing the reversed
\* to_str_radix_reversed(x, r) with from_str_radix(_, r) gives Ok(x); every
\* byte of the output is one of 0-9, a-z, and its digit value is below r.
C15_TextRoundTrip ==
    (ulast.op = "to_str_radix_reversed" /\ ulast.k <= MaxTextRadix) =>
        /\ ulast.status = "ok"
        /\ from_str_radix(reverse(ulast.out), ulast.k) =
                [status |-> "ok", a |-> ulast.a]
        /\ \A i \in 1..Len(ulast.out) :
                /\ \/ Ch0 <= ulast.out[i] /\ ulast.out[i] <= Ch9
                   \/ Cha <= ulast.out[i] /\ ulast.out[i] <= Chz
                /\ digit_of(ulast.out[i]) < ulast.k

\* C15 witness: a value of more than one digit printed in a radix above 10
\* that is not a power of two, with a letter and an inner zero in the text
C15_LettersAndInnerZero ==
    /\ ulast.op = "to_str_radix_reversed" /\ ulast.status = "ok"
    /\ RadixPath(ulast.k) /\ ulast.k > 10 /\ Len(ulast.a) >= 2
    /\ \E i \in 1..Len(ulast.out) : ulast.out[i] >= Cha
    /\ \E i \in 1..(Len(ulast.out) - 1) : ulast.out[i] = Ch0
    /\ from_str_radix(reverse(ulast.out), ulast.k).a = ulast.a

\* the text left after removing one optional leading '+'
AfterPlus(s) == IF s # <<>> /\ s[1] = ChPlus THEN Tail(s) ELSE s

\* c is an alphanumeric digit of value below r
IsDigitOf(c, r) ==
    \/ \E d \in 0..9 : d < r /\ c = Ch0 + d
    \/ \E d \in 10..35 : d < r /\ (c = Cha + d - 10 \/ c = ChA + d - 10)

\* C16: from_str_radix(s, r) returns the empty error exactly when nothing is
\* left after removing one optional leading '+', and the invalid-digit error
\* when what is left starts with '_' or holds a character that is neither
\* '_' nor a digit below r; neither returns a value, and empty goes first.
C16_ParseErrorKinds ==
    (ulast.op = "from_str_radix" /\ ulast.k <= MaxTextRadix) =>
        /\ (ulast.status = "empty") <=> (AfterPlus(ulast.b) = <<>>)
        /\ (ulast.status = "invalid") <=>
                /\ AfterPlus(ulast.b) # <<>>
                /\ \/ AfterPlus(ulast.b)[1] = ChUnderscore
                   \/ \E i \in 1..Len(AfterPlus(ulast.b)) :
                        /\ AfterPlus(ulast.b)[i] # ChUnderscore
                        /\ ~IsDigitOf(AfterPlus(ulast.b)[i], ulast.k)
        /\ ulast.status \in {"empty", "invalid", "ok"}
        /\ (ulast.status # "ok") => ulast.out = <<>>

\* C16 witness: "9" parsed in radix 8 is an invalid digit
C16_NineInRadixEight ==
    /\ ulast.op = "from_str_radix" /\ ulast.k = 8 /\ ulast.b = <<Ch9>>
    /\ ulast.status = "invalid" /\ pc = "returned"

\* the value of a digit character, whatever its case
DigitValue(c) ==
    IF c <= Ch9 THEN c - Ch0 ELSE IF c >= Cha THEN c - Cha + 10 ELSE c - ChA + 10

\* the number a text denotes in radix r: its digits from the left, with the
\* '_' characters left out
RECURSIVE TextValue(_, _, _)
TextValue(s, r, acc) ==
    IF s = <<>> THEN acc
    ELSE IF s[1] = ChUnderscore THEN TextValue(Tail(s), r, acc)
    ELSE TextValue(Tail(s), r, acc * r + DigitValue(s[1]))

\* a digit of radix r, followed by digits and '_' characters
WellFormed(s, r) ==
    /\ s # <<>> /\ IsDigitOf(s[1], r)
    /\ \A i \in 1..Len(s) : s[i] = ChUnderscore \/ IsDigitOf(s[i], r)

\* C17: a digit string d, d after one '+', and d with '_' characters put in
\* anywhere after its first character all parse to the value of d's digits,
\* upper- and lower-case letters denoting the same digit; a text that begins
\* with two '+' characters is rejected as invalid.
C17_SeparatorsAndSign ==
    (ulast.op = "from_str_radix" /\ ulast.k <= MaxTextRadix) =>
        /\ WellFormed(AfterPlus(ulast.b), ulast.k) =>
                /\ ulast.status = "ok"
                /\ ulast.out = BigUint_from(TextValue(AfterPlus(ulast.b), ulast.k, 0))
        /\ (ulast.status = "ok") => WellFormed(AfterPlus(ulast.b), ulast.k)
        /\ (Len(ulast.b) >= 2 /\ ulast.b[1] = ChPlus /\ ulast.b[2] = ChPlus) =>
                ulast.status = "invalid"

\* C17 witness: '+', an upper-case digit and a trailing '_' parse to the
\* digit's value
C17_PlusUpperUnderscore ==
    /\ ulast.op = "from_str_radix" /\ ulast.status = "ok" /\ Len(ulast.b) = 3
    /\ ulast.b[1] = ChPlus /\ ulast.b[3] = ChUnderscore
    /\ ChA <= ulast.b[2] /\ ulast.b[2] <= ChZ
    /\ Value(ulast.out) = ulast.b[2] - ChA + 10

\* C18: zero exports as exactly one zero digit in every radix:
\* to_radix_le(0, r) is [0] and to_str_radix_reversed(0, r) is "0"; no export
\* returns an empty sequence.
C18_ZeroIsOneDigit ==
    /\ (ulast.op = "to_radix_le") =>
            /\ ulast.out # <<>>
            /\ is_zero(ulast.a) => ulast.out = <<0>>
    /\ (ulast.op = "to_str_radix_reversed" /\ ulast.k <= MaxTextRadix) =>
            /\ ulast.status = "ok" /\ ulast.out # <<>>
            /\ is_zero(ulast.a) => ulast.out = <<Ch0>>

\* C18 witness: zero exported as bytes in a radix that is not a power of two
C18_ZeroInRadixThree ==
    /\ ulast.op = "to_radix_le" /\ ulast.k = 3 /\ is_zero(ulast.a)
    /\ ulast.out = <<0>> /\ pc = "returned"

\* the number little-endian digits denote in radix r
RECURSIVE LeValue(_, _)
LeValue(buf, r) == IF buf = <<>> THEN 0 ELSE buf[1] + r * LeValue(Tail(buf), r)

\* the digits of the last import, least significant first
LeDigits == IF ulast.op = "from_radix_be" THEN reverse(ulast.b) ELSE ulast.b

\* C19: from_radix_le(buf, r) and from_radix_be(buf, r) return None exactly
\* when a byte of buf is >= r (never for the largest radix), Some(0) for an
\* empty buf, and otherwise Some of the sum of buf[i] * r^i over the
\* little-endian digits; from_radix_be(buf, r) is from_radix_le(reverse(buf),
\* r), and more zero digits at the most significant end change nothing.
C19_RawDigitImport ==
    (ulast.op \in {"from_radix_le", "from_radix_be"}) =>
        /\ ulast.status \in {"none", "some"}
        /\ (ulast.status = "none") <=>
                (\E i \in 1..Len(ulast.b) : ulast.b[i] >= ulast.k)
        /\ (ulast.k = MaxRadix) => ulast.status = "some"
        /\ (ulast.b = <<>>) => ulast.status = "some" /\ ulast.out = <<>>
        /\ (ulast.status = "some") =>
                /\ ulast.out = BigUint_from(LeValue(LeDigits, ulast.k))
                /\ from_radix_le(Append(LeDigits, 0), ulast.k).a = ulast.out
                /\ from_radix_be(<<0>> \o reverse(LeDigits), ulast.k).a = ulast.out
        /\ from_radix_le(LeDigits, ulast.k) = [status |-> ulast.status, a |-> ulast.out]

\* C19 witness: big-endian bytes in the largest radix, the largest byte
\* among them, are all accepted
C19_LargestRadixAcceptsAll ==
    /\ ulast.op = "from_radix_be" /\ ulast.k = MaxRadix /\ ulast.status = "some"
    /\ Len(ulast.b) >= 2 /\ ulast.b[1] # ulast.b[2]
    /\ \E i \in 1..Len(ulast.b) : ulast.b[i] = MaxRadix - 1
    /\ Value(ulast.out) = LeValue(reverse(ulast.b), ulast.k)

\* C20: for every normalized BigUint x, to_u64(x) / to_u128(x) are Some(v)
\* exactly when x < 2^64 / 2^128, to_i64(x) / to_i128(x) exactly when x is at
\* most i64::MAX / i128::MAX, and then v is x; otherwise they are None, never
\* a truncated or wrapped value; TryFrom<BigUint> is Err, carrying the
\* unchanged BigUint, exactly when the matching to_* is None.
C20_ExactNarrowing ==
    /\ (ulast.op = "to_prim") =>
            /\ (ulast.status = "some") <=> (Value(ulast.a) <= MaxOf(ulast.ty))
            /\ (ulast.status = "some") => ulast.k = Value(ulast.a)
            /\ ulast.status \in {"some", "none"}
    /\ (ulast.op = "try_from") =>
            /\ (ulast.status = "err") <=> ~to_prim(ulast.a, ulast.ty).some
            /\ (ulast.status = "err") <=> (Value(ulast.a) > MaxOf(ulast.ty))
            /\ (ulast.status = "err") => ulast.out = ulast.a
            /\ (ulast.status = "ok") => ulast.k = Value(ulast.a)
            /\ ulast.status \in {"ok", "err"}

\* C20 witness: 2^64, one digit more than a u64 holds, whose low digits are
\* all zero: to_u64 is None, not the wrapped 0
C20_OneAboveU64 ==
    /\ ulast.op = "to_prim" /\ ulast.ty = "u64" /\ ulast.status = "none"
    /\ Value(ulast.a) = MaxOf("u64") + 1 /\ pc = "returned"

\* the top w bits of v with the lowest of them set when a bit below is set
RoundToOdd(v, w) ==
    LET drop == fls(v) - w
        top == v \div 2 ^ drop
    IN  IF v % 2 ^ drop # 0 THEN BitOr(top, 1) ELSE top

\* C21: high_bits_to_u64(v) is v itself when v has at most 64 bits, and
\* otherwise the top 64 bits of v with the least-significant bit set to 1
\* whenever any bit of v below those 64 bits is 1.
C21_RoundToOddWindow ==
    (ulast.op = "high_bits_to_u64" /\ pc = "returned") =>
        LET v == Value(ulast.a)
        IN  IF fls(v) <= Bits("u64") THEN ulast.k = v
            ELSE ulast.k = RoundToOdd(v, Bits("u64"))

\* a set bit below the window is lost: the window would end inside a digit,
\* and only as many low bits of each digit below it are looked at
C21_LowBitDropped ==
    /\ ulast.op = "high_bits_to_u64" /\ pc = "returned"
    /\ fls(Value(ulast.a)) > Bits("u64")
    /\ Value(ulast.a) % 2 ^ (fls(Value(ulast.a)) - Bits("u64")) # 0
    /\ ulast.k % 2 = 0
    /\ ulast.k = Value(ulast.a) \div 2 ^ (fls(Value(ulast.a)) - Bits("u64"))

\* the whole part of the magnitude of the finite f64 <<sign, mant, exp>>
WholePart(f) ==
    IF f[3] >= 0 THEN f[2] * 2 ^ f[3] ELSE f[2] \div 2 ^ (0 - f[3])

\* the f64 <<sign, mant, exp>> is below zero (-0.0 is not)
IsNegative(f) == f[1] = 0 - 1 /\ f[2] # 0

\* from_i64 / from_i128: None below zero, else Some of the value
FromIntExact ==
    ulast.op = "from_int" =>
        IF ulast.k < 0 THEN ulast.status = "none"
        ELSE /\ ulast.status = "some"
             /\ Normalized(ulast.out) /\ Value(ulast.out) = ulast.k

\* C22 as stated: from_f64(n) is None for every non-finite and for every
\* negative n, fractions between -1 and 0 included, and Some of n truncated
\* toward zero for every finite non-negative n; from_i64 and from_i128 are
\* None below zero and Some(n) otherwise.
C22_NoneOnEveryNegative ==
    /\ FromIntExact
    /\ ulast.op = "from_f64" =>
        IF ulast.form # "finite" \/ IsNegative(ulast.b) THEN ulast.status = "none"
        ELSE /\ ulast.status = "some"
             /\ Normalized(ulast.out) /\ Value(ulast.out) = WholePart(ulast.b)

\* C22, amended: from_f64(n) is None for every non-finite n and every
\* n <= -1, and Some of n truncated toward zero for every finite n > -1, so
\* Some(0) for the negative fractions and for -0.0; from_i64 and from_i128
\* are None below zero and Some(n) otherwise.
C22_NoneFromMinusOneDown ==
    /\ FromIntExact
    /\ ulast.op = "from_f64" =>
        IF ulast.form # "finite" \/ (IsNegative(ulast.b) /\ WholePart(ulast.b) >= 1)
        THEN ulast.status = "none"
        ELSE /\ ulast.status = "some"
             /\ Normalized(ulast.out) /\ Value(ulast.out) = WholePart(ulast.b)

\* a negative fraction gives Some(0)
C22_NegativeFractionIsZero ==
    /\ ulast.op = "from_f64" /\ ulast.form = "finite" /\ pc = "returned"
    /\ IsNegative(ulast.b) /\ WholePart(ulast.b) = 0
    /\ ulast.status = "some" /\ ulast.out = <<>>

\* C23: __add2(a, b) with len(a) >= len(b) leaves value(a') + carry * B^len(a)
\* = value(a) + value(b) with the returned carry 0 or 1; every digit of a
\* above a digit at which the carry must have died is unchanged; add2 leaves
\* the same digits and fails, where debug assertions are compiled in, exactly
\* when that carry is not 0.
C23_AddIntoSlice ==
    (ulast.op \in {"__add2", "add2"}) =>
        LET a == ulast.a
            b == ulast.b
            top == Base ^ Len(a)
            carry == (Value(a) + Value(b)) \div top
        IN  /\ Len(u) = Len(a)
            /\ Value(u) = (Value(a) + Value(b)) % top
            /\ carry \in {0, 1}
            /\ \A i \in (Len(b) + 1)..Len(a) :
                 (\E j \in (Len(b) + 1)..(i - 1) : a[j] # DigitMax) => u[i] = a[i]
            /\ ulast.op = "__add2" =>
                 /\ ulast.k = carry
                 /\ Value(u) + ulast.k * top = Value(a) + Value(b)
            /\ ulast.op = "add2" =>
                 (ulast.status = "panic" <=> (ulast.form = "debug" /\ carry # 0))

\* the carry out of b's length runs through one digit of a, dies in the
\* next, and a's top digit above it stays
C23_CarryDiesBelowTop ==
    /\ ulast.op = "__add2" /\ pc = "returned"
    /\ Len(ulast.a) = Len(ulast.b) + 3
    /\ ulast.a[Len(ulast.b) + 1] = DigitMax /\ u[Len(ulast.b) + 1] = 0
    /\ u[Len(ulast.b) + 2] = ulast.a[Len(ulast.b) + 2] + 1
    /\ u[Len(ulast.a)] = ulast.a[Len(ulast.a)] /\ u[Len(ulast.a)] # 0
    /\ ulast.k = 0

\* C24: sub2(a, b) fails if and only if value(b) > value(a), for slices of
\* any relative lengths; when it does not fail, a holds value(a) - value(b)
\* in the same number of digits, and every digit of a above a digit at which
\* the borrow must have died is unchanged.
C24_SubFromSlice ==
    (ulast.op = "sub2") =>
        LET a == ulast.a
            b == ulast.b
            len == Min(Len(a), Len(b))
        IN  /\ ulast.status = "panic" <=> Value(b) > Value(a)
            /\ Len(u) = Len(a)
            /\ ulast.status = "ok" =>
                 /\ Value(u) = Value(a) - Value(b)
                 /\ \A i \in (len + 1)..Len(a) :
                      (\E j \in (len + 1)..(i - 1) : a[j] # 0) => u[i] = a[i]

\* b is the longer slice, with zeros beyond a's length and a value within
\* a's: the subtraction goes through
C24_ZeroPaddedSubtrahend ==
    /\ ulast.op = "sub2" /\ pc = "returned"
    /\ Len(ulast.b) > Len(ulast.a) /\ Value(ulast.b) > 0
    /\ Value(u) = Value(ulast.a) - Value(ulast.b)

\* C26: for all digits a, b and incoming bit c, adc writes (a + b + c) mod
\* 2^W and returns 1 exactly when a + b + c >= 2^W; sbb writes (a - b - c)
\* mod 2^W and returns 1 exactly when a < b + c; the portable versions give
\* the outputs of the add-with-carry and subtract-with-borrow instructions.
C26_CarryPrimitivesExact ==
    /\ ulast.op = "adc" =>
        LET a == ulast.a[1]
            b == ulast.b[1]
            c == ulast.b[2]
        IN  /\ u = <<(a + b + c) % Base>>
            /\ ulast.k = (IF a + b + c >= Base THEN 1 ELSE 0)
            /\ u[1] = adc_x86(c, a, b).out /\ u[1] = adc(c, a, b).out
            /\ ulast.k = adc_x86(c, a, b).carry /\ ulast.k = adc(c, a, b).carry
    /\ ulast.op = "sbb" =>
        LET a == ulast.a[1]
            b == ulast.b[1]
            c == ulast.b[2]
        IN  /\ u = <<(a - b - c + 2 * Base) % Base>>
            /\ ulast.k = (IF a < b + c THEN 1 ELSE 0)
            /\ u[1] = sbb_x86(c, a, b).out /\ u[1] = sbb(c, a, b).out
            /\ ulast.k = sbb_x86(c, a, b).borrow /\ ulast.k = sbb(c, a, b).borrow

\* equal digits and an incoming borrow: only the second subtraction of the
\* portable sbb wraps
C26_BorrowFromIncomingBit ==
    /\ ulast.op = "sbb" /\ ulast.form = "portable" /\ pc = "returned"
    /\ ulast.a[1] = ulast.b[1] /\ ulast.b[2] = 1
    /\ u = <<DigitMax>> /\ ulast.k = 1

\* the call ended as the direct subtraction a - &b does: it fails exactly
\* when a < b, and otherwise returns the same normalized digits
AsDirectSub(a, b) ==
    LET same(d) ==
            /\ ulast.status = StatusOf(d)
            /\ ulast.status = "panic" <=> Value(a) < Value(b)
            /\ d.ok => (ulast.out = d.a /\ Normalized(ulast.out)
                        /\ Value(ulast.out) = Value(a) - Value(b))
    IN  same(BigUint_sub_assign(a, b))

\* C25: for normalized a and b, &a - b (computed in b's buffer by __sub2rev
\* and sub2rev) returns the same normalized value as a - &b when a >= b and
\* fails exactly when a < b; a u32, u64 or u128 minus a BigUint does the same
\* against BigUint::from(scalar) - BigUint.
C25_ReversedSubAgrees ==
    /\ (ulast.op = "sub" /\ ulast.form = "ref_val") => AsDirectSub(ulast.a, ulast.b)
    /\ ulast.op = "scalar_sub" => AsDirectSub(BigUint_from(ulast.k), ulast.a)

\* b is the shorter operand and its subtraction from a's low digits leaves
\* a borrow, which is taken from a's high digit
C25_BorrowFromHighDigits ==
    /\ ulast.op = "sub" /\ ulast.form = "ref_val" /\ pc = "returned"
    /\ Len(ulast.b) = 1 /\ Len(ulast.a) = 2
    /\ ulast.a[1] < ulast.b[1] /\ ulast.a[2] = 1
    /\ Len(ulast.out) = 1

\* (base, power) is the greatest power of radix within max
GreatestPower(e, radix, max) ==
    /\ e[2] >= 1
    /\ e[1] = radix ^ e[2]
    /\ e[1] <= max
    /\ e[1] * radix > max

\* C27: for every radix in 3..256 that is no power of two, get_radix_base
\* returns (base, power) with power >= 1, base = radix^power, base within
\* the digit maximum and radix^(power + 1) beyond it; get_half_radix_base
\* the same with the half-digit maximum; the entries of the powers of two
\* are (0, 0).
C27_MaximalGroupBases ==
    (ulast.op \in {"get_radix_base", "get_half_radix_base"}
        /\ ulast.status = "ok") =>
        IF is_power_of_two(ulast.k) THEN ulast.out = <<0, 0>>
        ELSE (3 <= ulast.k /\ ulast.k < RadixEnd) =>
                GreatestPower(ulast.out, ulast.k,
                              IF ulast.op = "get_radix_base" THEN TableMax
                              ELSE TableHalf)

\* the largest radix: its square is beyond half a digit, so the half base is
\* the radix itself
C27_LargestRadixHalfBase ==
    /\ ulast.op = "get_half_radix_base" /\ pc = "returned"
    /\ ulast.k = RadixEnd - 1
    /\ ulast.out[1] = ulast.k /\ ulast.out[2] = 1

\* the remainder div_rem returns for a and b, as a number
GenericRem(a, b) == IntValue(RemOf(div_rem(a, b)).v)

\* C28: for every BigInt a and nonzero b, &a % &b is the truncating remainder
\* (|r| < |b|, r zero or with the sign of a) and the one div_rem returns,
\* whether b fits in u32, fits in i32 but not in u32 (down to i32::MIN), or
\* takes the div_rem path; rem_euclid adjusts that same remainder.
C28_RemPathsAgree ==
    (last.op \in {"rem", "rem_euclid"} /\ ~BigInt_is_zero(last.b)) =>
        LET a == IntValue(last.a)
            b == IntValue(last.b)
            r == IntValue(last.q)
            r0 == GenericRem(last.a, last.b)
        IN  /\ last.status = "ok"
            /\ SignInv(last.q)
            /\ last.op = "rem" =>
                 /\ r = r0
                 /\ last.q = RemOf(div_rem(last.a, last.b)).v
                 /\ r = a - b * TruncDiv(a, b)
                 /\ Abs(r) < Abs(b)
                 /\ r = 0 \/ Sgn(r) = Sgn(a)
            /\ last.op = "rem_euclid" =>
                 r = (IF r0 < 0 THEN r0 + Abs(b) ELSE r0)

\* a negative dividend by i32::MIN, which fits i32 but not u32
C28_DivisorSignedMinimum ==
    /\ last.op = "rem" /\ pc = "returned"
    /\ IntValue(last.b) = MinOf("i32")
    /\ IntValue(last.a) < 0 /\ IntValue(last.q) < 0

\* the call exported a nonzero value in a radix that is no power of two
RadixExport ==
    /\ ulast.op = "to_radix_le" /\ ~is_zero(ulast.a) /\ RadixPath(ulast.k)

\* the radix base the recorded call used
BaseUsed == base_of(ulast.k, ulast.form = "wide")

\* C29: for a nonzero BigUint whose digit vector reaches the threshold,
\* to_radix_digits_le, which first divides by big_base = base^big_power and
\* pushes big_power * power radix digits per chunk, returns the digit
\* sequence of the plain repeated division by the group base; the value
\* left is nonzero when its lowest digit is read, on either path.
C29_TwoLevelEqualsDirect ==
    RadixExport =>
        /\ ulast.status = "ok"
        /\ ulast.out = radix_digits(ulast.a, ulast.k, BaseUsed.base, BaseUsed.power)
        /\ Len(ulast.a) >= BigLen =>
             LET big == big_base_for(BigUint_from(BaseUsed.base), 1, isqrt(Len(ulast.a)))
                 chunks == big_chunks(ulast.a, ulast.k, BaseUsed.base, BaseUsed.power)
             IN  /\ Value(big.base) = BaseUsed.base ^ big.power
                 /\ Len(chunks.res) % (big.power * BaseUsed.power) = 0
                 /\ chunks.digits # <<>>

\* the value is long enough, big_base is a square of the group base, and two
\* chunks are pushed before the division by the group base takes over
C29_TwoChunksThenGroups ==
    /\ RadixExport /\ pc = "returned"
    /\ Len(ulast.a) >= BigLen
    /\ big_base_for(BigUint_from(BaseUsed.base), 1, isqrt(Len(ulast.a))).power >= 2
    /\ Len(big_chunks(ulast.a, ulast.k, BaseUsed.base, BaseUsed.power).res)
         >= 2 * 2 * BaseUsed.power
    /\ Len(ulast.out)
         > Len(big_chunks(ulast.a, ulast.k, BaseUsed.base, BaseUsed.power).res)

\* the digits the bitwise export pushes for the digits of the magnitude below
\* the top one, each a full group
FullGroups(d, r) == (Len(d) - 1) * (DigitBits \div ilog2(r))

\* C30: for every nonzero BigUint x and every byte radix r, the last element
\* of to_radix_le(x, r) is nonzero and every element is below r, on the exact
\* bitwise, the inexact bitwise and the general path; the groups below the
\* top one come at full width, so the sequence denotes x.
C30_CanonicalDigits ==
    (ulast.op = "to_radix_le" /\ ~is_zero(ulast.a)) =>
        /\ ulast.status = "ok"
        /\ ulast.out # <<>>
        /\ ulast.out[Len(ulast.out)] # 0
        /\ \A i \in 1..Len(ulast.out) : ulast.out[i] \in 0..(ulast.k - 1)
        /\ LeValue(ulast.out, ulast.k) = Value(ulast.a)
        /\ BitwisePath(ulast.k) =>
             /\ Len(ulast.out) > FullGroups(ulast.a, ulast.k)
             /\ Len(ulast.out) <= FullGroups(ulast.a, ulast.k)
                                    + DigitBits \div ilog2(ulast.k)

\* C30 witness: on the inexact path the bits left over after the top digit
\* give a zero, which is popped, below it a zero digit inside the sequence
C30_InexactTopZeroPopped ==
    /\ ulast.op = "to_radix_le" /\ pc = "returned" /\ InexactPath(ulast.k)
    /\ Len(ulast.a) >= 2
    /\ Len(inexact_to(ulast.a, 1, ilog2(ulast.k), [res |-> <<>>, r |-> 0, rbits |-> 0]))
         > Len(ulast.out)
    /\ \E i \in 1..Len(ulast.out) - 1 : ulast.out[i] = 0
    /\ ulast.out[Len(ulast.out)] # 0

====
